---- MODULE Spec2Model ----
(***************************************************************************)
(* Model of easy-repl: the REPL builder (src/src/repl.rs ReplBuilder), the *)
(* prefix index (trie + src/src/completion.rs), the generated argument     *)
(* validator (src/src/command.rs) and the evaluation loop (Repl::next,     *)
(* Repl::handle_line, Repl::handle_command, Repl::run).                    *)
(*                                                                         *)
(* A Rust String is a sequence of characters; a character is one of the    *)
(* atoms of Chars.  "sp" is the space, "sq" the single quote, "dq" the     *)
(* double quote, "bs" the backslash, "nl" the newline, "hash" the '#'.     *)
(***************************************************************************)
EXTENDS Integers, Sequences, FiniteSets, TLC

\* ------------------------------------------------------------------ bounds

\* Largest number of ReplBuilder::add calls before build.
MaxAdded == 3

\* Longest list of types given to validator! / command!, and longest
\* argument list passed to a generated handler on its own.
MaxTypes == 2
MaxArgs == 3

\* ------------------------------------------------------------------ strings

Chars == {"a", "b", "d", "e", "h", "i", "l", "n", "p", "q", "t", "u", "w", "x",
          "1", "2", "sp", "sq", "dq", "bs", "nl", "hash", "e_acute", "nbsp"}

\* Byte value of a character (String comparison in Rust is byte-wise); of
\* the first byte for the two characters of two bytes, "e_acute" (C3 A9)
\* and the no-break space "nbsp" (C2 A0).
Bytes ==
    [c \in Chars |->
        CASE c = "nl" -> 10  [] c = "sp" -> 32  [] c = "dq" -> 34  [] c = "hash" -> 35
          [] c = "sq" -> 39  [] c = "1" -> 49   [] c = "2" -> 50   [] c = "bs" -> 92
          [] c = "a" -> 97   [] c = "b" -> 98   [] c = "d" -> 100  [] c = "e" -> 101
          [] c = "h" -> 104  [] c = "i" -> 105  [] c = "l" -> 108  [] c = "n" -> 110
          [] c = "p" -> 112  [] c = "q" -> 113  [] c = "t" -> 116  [] c = "u" -> 117
          [] c = "w" -> 119  [] c = "x" -> 120  [] c = "nbsp" -> 194
          [] c = "e_acute" -> 195]

Ord(c) == Bytes[c]

\* str::starts_with
StartsWith(s, p) == Len(p) <= Len(s) /\ SubSeq(s, 1, Len(p)) = p

\* <String as Ord>::lt : lexicographic on bytes, a proper prefix is smaller.
RECURSIVE StrLess(_, _)
StrLess(s, t) ==
    IF t = <<>> THEN FALSE
    ELSE IF s = <<>> THEN TRUE
    ELSE IF Ord(Head(s)) # Ord(Head(t)) THEN Ord(Head(s)) < Ord(Head(t))
    ELSE StrLess(Tail(s), Tail(t))

\* Insert x into the sorted sequence v, before the first larger element.
RECURSIVE SortedInsert(_, _)
SortedInsert(v, x) ==
    IF v = <<>> THEN <<x>>
    ELSE IF StrLess(x, Head(v)) THEN <<x>> \o v
    ELSE <<Head(v)>> \o SortedInsert(Tail(v), x)

\* Mutant: the vector is left in the order it came in.
sort_Unsorted(v) == v

\* Vec<String>::sort : ascending, keeps every element.
RECURSIVE sort(_)
sort(v) == IF v = <<>> THEN <<>> ELSE SortedInsert(sort(Tail(v)), Head(v))

Range(v) == {v[i] : i \in 1..Len(v)}

\* All orders in which the elements of the finite set S can be listed.
RECURSIVE Orderings(_)
Orderings(S) ==
    IF S = {} THEN {<<>>}
    ELSE UNION {{<<x>> \o r : r \in Orderings(S \ {x})} : x \in S}

\* What separates the words of shell_words::split: a space, a newline.
IsWhitespace(c) == c \in {"sp", "nl"}

\* char::is_whitespace : the Unicode White_Space property, which the
\* no-break space has as well.
char_is_whitespace(c) == c \in {"sp", "nl", "nbsp"}

\* Mutant: only the empty line is blank (the trim is left out).
IsBlank_EmptyOnly(s) == s = <<>>

\* str::trim(..).is_empty()
RECURSIVE IsBlank(_)
IsBlank(s) == s = <<>> \/ (char_is_whitespace(Head(s)) /\ IsBlank(Tail(s)))

\* ------------------------------------------------------------------ shell words

\* shell_words::split as a state machine over the characters of s, from
\* position i, in state st, with the word under construction and the words
\* completed so far.  Result: [ok, words]; ok = FALSE is ParseError.
RECURSIVE SplitFrom(_, _, _, _, _)
SplitFrom(s, i, st, word, words) ==
    LET end == i > Len(s)
        c == s[i]
        go(st2, word2, words2) == SplitFrom(s, i + 1, st2, word2, words2)
        done(words2) == [ok |-> TRUE, words |-> words2]
        fail == [ok |-> FALSE, words |-> <<>>]
    IN  CASE st = "Delimiter" ->
               IF end THEN done(words)
               ELSE IF c = "sq" THEN go("SingleQuoted", word, words)
               ELSE IF c = "dq" THEN go("DoubleQuoted", word, words)
               ELSE IF c = "bs" THEN go("Backslash", word, words)
               ELSE IF IsWhitespace(c) THEN go("Delimiter", word, words)
               ELSE IF c = "hash" THEN go("Comment", word, words)
               ELSE go("Unquoted", Append(word, c), words)
          [] st = "Backslash" ->
               IF end THEN done(Append(words, Append(word, "bs")))
               ELSE IF c = "nl" THEN go("Delimiter", word, words)
               ELSE go("Unquoted", Append(word, c), words)
          [] st = "Unquoted" ->
               IF end THEN done(Append(words, word))
               ELSE IF c = "sq" THEN go("SingleQuoted", word, words)
               ELSE IF c = "dq" THEN go("DoubleQuoted", word, words)
               ELSE IF c = "bs" THEN go("UnquotedBackslash", word, words)
               ELSE IF IsWhitespace(c) THEN go("Delimiter", <<>>, Append(words, word))
               ELSE go("Unquoted", Append(word, c), words)
          [] st = "UnquotedBackslash" ->
               IF end THEN done(Append(words, Append(word, "bs")))
               ELSE IF c = "nl" THEN go("Unquoted", word, words)
               ELSE go("Unquoted", Append(word, c), words)
          [] st = "SingleQuoted" ->
               IF end THEN fail
               ELSE IF c = "sq" THEN go("Unquoted", word, words)
               ELSE go("SingleQuoted", Append(word, c), words)
          [] st = "DoubleQuoted" ->
               IF end THEN fail
               ELSE IF c = "dq" THEN go("Unquoted", word, words)
               ELSE IF c = "bs" THEN go("DoubleQuotedBackslash", word, words)
               ELSE go("DoubleQuoted", Append(word, c), words)
          [] st = "DoubleQuotedBackslash" ->
               IF end THEN fail
               ELSE IF c = "nl" THEN go("DoubleQuoted", word, words)
               ELSE IF c \in {"dq", "bs"} THEN go("DoubleQuoted", Append(word, c), words)
               ELSE go("DoubleQuoted", Append(Append(word, "bs"), c), words)
          [] st = "Comment" ->
               IF end THEN done(words)
               ELSE IF c = "nl" THEN go("Delimiter", word, words)
               ELSE go("Comment", word, words)

\* repl.rs split_args: shell_words::split(line)
split_args(line) == SplitFrom(line, 1, "Delimiter", <<>>, <<>>)

\* ------------------------------------------------------------------ trie

\* trie_rs: a trie is its set of nodes (each node is the path of labels from
\* the root, the root being the empty path) and the set of terminal nodes.
TrieBuilder_new == [nodes |-> {<<>>}, terminal |-> {}]

\* TrieBuilder::push : adds the path of the word and marks its end terminal.
TrieBuilder_push(trie, word) ==
    [nodes    |-> trie.nodes \cup {SubSeq(word, 1, k) : k \in 0..Len(word)},
     terminal |-> trie.terminal \cup {word}]

\* The terminal nodes at or below a node, by walking the children.
RECURSIVE TrieCollect(_, _)
TrieCollect(trie, node) ==
    (IF node \in trie.terminal THEN {node} ELSE {})
    \cup UNION {TrieCollect(trie, Append(node, c)) :
                  c \in {d \in Chars : Append(node, d) \in trie.nodes}}

\* Walk the query down from the root, label by label; FALSE when a label has
\* no child.
RECURSIVE TrieWalk(_, _, _)
TrieWalk(trie, query, k) ==
    IF k > Len(query) THEN TRUE
    ELSE IF SubSeq(query, 1, k) \in trie.nodes THEN TrieWalk(trie, query, k + 1)
    ELSE FALSE

\* Mutant: an exact-match lookup instead of a predictive one.
predictive_search_Exact(trie, query) ==
    IF query \in trie.terminal THEN {query} ELSE {}

\* Trie::predictive_search : every stored word the query is a prefix of (as a
\* set: the order of the returned vector is the library's own).
predictive_search(trie, query) ==
    IF TrieWalk(trie, query, 1) THEN TrieCollect(trie, query) ELSE {}

\* completion.rs completion_candidates: nothing for the empty prefix.
completion_candidates(trie, prefix) ==
    IF prefix = <<>> THEN {} ELSE predictive_search(trie, prefix)

\* ------------------------------------------------------------------ commands

\* Names used below.
help_name == <<"h", "e", "l", "p">>
quit_name == <<"q", "u", "i", "t">>

\* repl.rs RESERVED (the names; the descriptions are help text only).
RESERVED == <<help_name, quit_name>>

\* command.rs CommandStatus
CommandStatus == {"Done", "Quit"}

\* Errors (anyhow::Error values), told apart by their concrete type as
\* downcast_ref does.  ArgsError carries its fields; the others carry nothing
\* the loop looks at.
NoError == [type |-> "None", got |-> 0, expected |-> 0, argument |-> <<>>, error |-> "-"]
CriticalError == [NoError EXCEPT !.type = "CriticalError"]
HandlerError == [NoError EXCEPT !.type = "HandlerError"]
IoError == [NoError EXCEPT !.type = "IoError"]
WrongNumberOfArguments(g, e) ==
    [type |-> "WrongNumberOfArguments", got |-> g, expected |-> e, argument |-> <<>>,
     error |-> "-"]
WrongArgumentValue(a, e) ==
    [type |-> "WrongArgumentValue", got |-> 0, expected |-> 0, argument |-> a,
     error |-> e]

\* Mutant: no error is recognised as critical.
IsCritical_Never(err) == FALSE

\* Mutant: every handler error is taken for a critical one.
IsCritical_Always(err) == err.type # "None"

\* err.downcast_ref::<CriticalError>().is_some()
IsCritical(err) == err.type = "CriticalError"
\* Mutant: only the error about the number of arguments counts as ArgsError.
IsArgsError_OnlyArity(err) == err.type = "WrongNumberOfArguments"

\* err.downcast_ref::<ArgsError>().is_some()
IsArgsError(err) == err.type \in {"WrongNumberOfArguments", "WrongArgumentValue"}

\* anyhow::Result<CommandStatus>
Ok(st) == [tag |-> "Ok", status |-> st, err |-> NoError]
Err(e) == [tag |-> "Err", status |-> "-", err |-> e]
Panic == [tag |-> "Panic", status |-> "-", err |-> NoError]

\* What the user closure of a command can return when it is called: a
\* status, a critical error, an error of its own, or an ArgsError it made
\* itself.
ClosureResults == {Ok("Done"), Ok("Quit"), Err(CriticalError), Err(HandlerError),
                   Err(WrongArgumentValue(<<"x">>, "Refused"))}

Digit(c) == CASE c = "1" -> 1 [] c = "2" -> 2 [] OTHER -> -1

\* The number a run of digits denotes, accumulated digit by digit as
\* i32::from_str does, with checked_mul(10) and checked_add(digit): the
\* product overflows above 214748364, the sum at 214748364 with a digit
\* above 7.  -1 when the number does not fit.
RECURSIVE DigitsValue(_, _)
DigitsValue(s, acc) ==
    IF s = <<>> THEN acc
    ELSE IF acc > 214748364 THEN -1
    ELSE IF acc = 214748364 /\ Digit(Head(s)) > 7 THEN -1
    ELSE DigitsValue(Tail(s), 10 * acc + Digit(Head(s)))

\* args[i].parse::<$type>().is_ok() :  String parses from every text; i32
\* from a non-empty run of decimal digits whose value fits 32 bits (the
\* characters of the model hold no sign).
Parses(type, s) ==
    CASE type = "String" -> TRUE
      [] type = "i32" -> /\ s # <<>>
                         /\ \A k \in 1..Len(s) : Digit(s[k]) >= 0
                         /\ DigitsValue(s, 0) >= 0

\* The Err of args[i].parse::<$type>() where the parse fails (the kind of a
\* ParseIntError).
ParseErr(type, s) ==
    IF s = <<>> THEN "Empty"
    ELSE IF \E k \in 1..Len(s) : Digit(s[k]) < 0 THEN "InvalidDigit"
    ELSE "PosOverflow"

\* args[i].parse::<$type>().unwrap() where the parse succeeds: the String
\* itself, or the number the digits denote.
ParseValue(type, s) ==
    CASE type = "String" -> [type |-> "String", text |-> s, number |-> 0]
      [] type = "i32" -> [type |-> "i32", text |-> <<>>, number |-> DigitsValue(s, 0)]

\* The first position from i on whose argument does not parse, 0 if none.
RECURSIVE FirstBad(_, _, _)
FirstBad(types, args, i) ==
    IF i > Len(types) THEN 0
    ELSE IF ~Parses(types[i], args[i]) THEN i
    ELSE FirstBad(types, args, i + 1)

\* validator! : what the parse block returns when bad is the first position
\* whose argument does not parse (0: every argument parses).
parse_block(types, args, bad) ==
    IF bad # 0
    THEN Err(WrongArgumentValue(args[bad], ParseErr(types[bad], args[bad])))
    ELSE Ok("Done")

\* command.rs validator! : arity first, then each argument in order.
validator(types, args) ==
    IF Len(args) # Len(types)
    THEN Err(WrongNumberOfArguments(Len(args), Len(types)))
    ELSE parse_block(types, args, FirstBad(types, args, 1))

\* command.rs command! : a Command from a description and (name : type)
\* pairs; args_info lists the pairs, the handler validates with the types.
command(desc, sig) ==
    [description |-> desc,
     args_info   |-> sig,
     types       |-> [i \in 1..Len(sig) |-> sig[i].type]]

\* Mutant: the closure is called whatever the validator returned.
after_validator_ClosureAnyway(v, res) ==
    IF v.tag = "Err" THEN [result |-> v, ran |-> TRUE]
    ELSE [result |-> res, ran |-> TRUE]

\* command! @handler, `validator(args)?` and what follows it: v is what the
\* validator returned, res the result of the closure if it is called.
after_validator(v, res) ==
    IF v.tag = "Err" THEN [result |-> v, ran |-> FALSE]
    ELSE [result |-> res, ran |-> TRUE]

\* The handler command! generates: validator(args)? and then the closure,
\* whose result is res.  ran tells whether the closure was called.
handler(cmd, args, res) == after_validator(validator(cmd.types, args), res)

\* command.rs Command::run
Command_run(cmd, args, res) == handler(cmd, args, res)

\* ------------------------------------------------------------------ inputs

add_name == <<"a", "d", "d">>
hi_name == <<"h", "i">>
he_name == <<"h", "e">>
quotes_name == <<"sq", "sq">>

\* Names a caller may pass to ReplBuilder::add: usable ones, the reserved
\* ones, the empty one, one of two words, one with an unbalanced quote and
\* one that is only a comment.
Names == {add_name, hi_name, he_name, quotes_name, help_name, quit_name,
          <<>>, <<"a", "sp", "b">>, <<"sq", "a">>, <<"hash", "a">>}

\* The command added under a name (as in the crate's examples).
CommandFor(name) ==
    CASE name = add_name -> command("Add X to Y",
                                    <<[name |-> "X", type |-> "i32"],
                                      [name |-> "Y", type |-> "i32"]>>)
      [] name = hi_name -> command("Say hello", <<[name |-> "name", type |-> "String"]>>)
      [] OTHER -> command("Run", <<>>)

\* The commands a caller may add under a name: the one above and, for one
\* name, a command with another description and signature as well.
Commands(name) ==
    {CommandFor(name)}
    \cup (IF name = hi_name
          THEN {command("Greet", <<[name |-> "n", type |-> "i32"]>>)} ELSE {})

\* Lines the line source may deliver: a first token alone (full names,
\* strict prefixes, unknown text); the commands that take arguments followed
\* by none, too few, the right ones or a wrong one; argument-less commands
\* followed by one; and lines that are blank, hold only quotes or a comment,
\* or have an unbalanced quote.
FirstTokens == {<<"h">>, he_name, <<"h", "e", "l">>, help_name, hi_name,
                <<"q">>, quit_name, <<"a">>, <<"a", "d">>, add_name, <<"x">>}
ArgTails == {<<>>, <<"sp", "1">>, <<"sp", "1", "sp", "2">>, <<"sp", "1", "sp", "x">>}
Lines == {t \o a : t \in {<<"a">>, add_name, hi_name}, a \in ArgTails}
         \cup FirstTokens
         \cup {t \o <<"sp", "1">> : t \in {help_name, quit_name, he_name, <<"q">>}}
         \cup {<<>>, <<"sp">>, <<"sp", "h", "i", "sp">>, quotes_name,
               <<"sq", "sq", "sp", "1">>, <<"sq", "a">>, <<"hash", "a">>}

\* What Editor::readline returns.
ReadResults == {[kind |-> "Line", line |-> l] : l \in Lines}
               \cup {[kind |-> k, line |-> <<>>] : k \in {"Interrupted", "Eof", "Error"}}
NoRead == [kind |-> "None", line |-> <<>>]

\* Which of the writes of one step the output stream refuses (io::Error):
\* the k-th writeln! of the step fails iff k is in the set.  A step makes a
\* third write only after two that succeeded, so that a failure of the third
\* is drawn on its own.
WriteFailures == {{}, {1}, {2}, {3}, {1, 2}}

\* ------------------------------------------------------------------ output

\* One writeln! to `out`.
OutLine(k, t, n, e, s) == [kind |-> k, text |-> t, names |-> n, err |-> e, sig |-> s]
\* "Error: {}"
LineError(e) == OutLine("Error", <<>>, <<>>, e, <<>>)
\* "Command not found: {}"
LineNotFound(prefix) == OutLine("Command not found", prefix, <<>>, NoError, <<>>)
\* "Candidates:\n  {}" with the names joined by "\n  "
LineCandidates(names) == OutLine("Candidates", <<>>, names, NoError, <<>>)
\* "Use 'help' to see available commands."
LineUseHelp == OutLine("Use help", <<>>, <<>>, NoError, <<>>)
\* "Usage: {} {}" with the name and args_info joined by " "
LineUsage(name, args_info) == OutLine("Usage", name, <<>>, NoError, args_info)
\* the help message
LineHelp(names) == OutLine("Help", <<>>, names, NoError, <<>>)
\* "CTRL-C"
LineCtrlC == OutLine("CTRL-C", <<>>, <<>>, NoError, <<>>)

ParseError == [NoError EXCEPT !.type = "ParseError"]
ReadlineError == [NoError EXCEPT !.type = "ReadlineError"]

\* The output stream during one step: what was written, how many writes were
\* attempted, and whether the last one succeeded.
NoOutput == [out |-> <<>>, n |-> 0, failed |-> {}, ok |-> TRUE]

\* writeln!(&mut self.out, ..) : the (n+1)-th write of the step.
Write(io, ln, wf) ==
    IF (io.n + 1) \in wf
    THEN [out |-> io.out, n |-> io.n + 1, failed |-> io.failed \cup {io.n + 1},
          ok |-> FALSE]
    ELSE [out |-> Append(io.out, ln), n |-> io.n + 1, failed |-> io.failed, ok |-> TRUE]

\* ------------------------------------------------------------------ builder

\* BuilderError
BuilderError(t, name) == [type |-> t, name |-> name]
NoBuilderError == BuilderError("None", <<>>)

NoCommands == [n \in {} |-> command("", <<>>)]

\* Mutant: a name added twice is accepted (the later command replaces the
\* earlier one in the map).
name_error_NoDuplicateCheck(name, old) ==
    LET args == split_args(name)
    IN  IF ~args.ok THEN "InvalidName"
        ELSE IF Len(args.words) # 1 \/ name = <<>> THEN "InvalidName"
        ELSE IF \E k \in 1..Len(RESERVED) : RESERVED[k] = name THEN "ReservedName"
        ELSE "None"

\* Mutant: a name of several words is accepted.
name_error_SeveralWordsAccepted(name, old) ==
    LET args == split_args(name)
    IN  IF ~args.ok THEN "InvalidName"
        ELSE IF Len(args.words) < 1 \/ name = <<>> THEN "InvalidName"
        ELSE IF \E k \in 1..Len(RESERVED) : RESERVED[k] = name THEN "ReservedName"
        ELSE IF old THEN "DuplicateCommands"
        ELSE "None"

\* Mutant: the reserved names are not looked up.
name_error_NoReservedCheck(name, old) ==
    LET args == split_args(name)
    IN  IF ~args.ok THEN "InvalidName"
        ELSE IF Len(args.words) # 1 \/ name = <<>> THEN "InvalidName"
        ELSE IF old THEN "DuplicateCommands"
        ELSE "None"

\* The checks of ReplBuilder::build on one added name, in the code's order;
\* old tells whether the map already held the name.  "None" when it passes.
name_error(name, old) ==
    LET args == split_args(name)
    IN  IF ~args.ok THEN "InvalidName"
        ELSE IF Len(args.words) # 1 \/ name = <<>> THEN "InvalidName"
        ELSE IF \E k \in 1..Len(RESERVED) : RESERVED[k] = name THEN "ReservedName"
        ELSE IF old THEN "DuplicateCommands"
        ELSE "None"

\* Mutant: an insert reports an old value only when it equals the new one.
HashMap_insert_OldIfSameValue(map, key, value) ==
    [old |-> key \in DOMAIN map /\ map[key] = value, map |-> (key :> value) @@ map]

\* HashMap::insert : the map with key bound to value, and whether the key
\* was bound before (the Option returned is Some).
HashMap_insert(map, key, value) ==
    [old |-> key \in DOMAIN map, map |-> (key :> value) @@ map]

\* The body of ReplBuilder::build from entry i of the added commands on: the
\* map insert, the checks, the trie push; after the last entry the reserved
\* names are pushed.
RECURSIVE BuildFrom(_, _, _, _)
BuildFrom(added, i, commands, trie) ==
    IF i > Len(added)
    THEN [tag |-> "Ok", error |-> NoBuilderError, commands |-> commands,
          trie |-> TrieBuilder_push(TrieBuilder_push(trie, RESERVED[1]), RESERVED[2])]
    ELSE LET name == added[i].name
             ins == HashMap_insert(commands, name, added[i].cmd)
             e == name_error(name, ins.old)
         IN  IF e # "None"
             THEN [tag |-> "Err", error |-> BuilderError(e, name),
                   commands |-> NoCommands, trie |-> TrieBuilder_new]
             ELSE BuildFrom(added, i + 1, ins.map, TrieBuilder_push(trie, name))

\* Mutant: the command added last is pushed to the trie but is not kept in
\* the map.
build_MapWithoutLast(b) ==
    IF BuildFrom(b.commands, 1, NoCommands, TrieBuilder_new).tag = "Ok" /\ b.commands # <<>>
    THEN [BuildFrom(b.commands, 1, NoCommands, TrieBuilder_new) EXCEPT
            !.commands = [n \in DOMAIN @ \ {b.commands[Len(b.commands)].name} |-> @[n]]]
    ELSE BuildFrom(b.commands, 1, NoCommands, TrieBuilder_new)

\* Mutant: the entries are examined from the last added to the first.
build_LastAddedFirst(b) ==
    BuildFrom([i \in 1..Len(b.commands) |-> b.commands[Len(b.commands) + 1 - i]],
              1, NoCommands, TrieBuilder_new)

\* ReplBuilder::build
build(b) == BuildFrom(b.commands, 1, NoCommands, TrieBuilder_new)

\* ------------------------------------------------------------------ repl

\* Repl::help : the registered names in ascending order, then the reserved.
help(r) == sort(CHOOSE v \in Orderings(DOMAIN r.commands) : TRUE) \o RESERVED

\* Result of a loop step: anyhow::Result<LoopStatus>, or a panic.
\* io is the output stream after the step (what was written, the writes
\* attempted and failed), disp the calls of handle_command, inv the handlers
\* run.
Step(ret, err, io, disp, inv) ==
    [ret |-> ret, err |-> err, io |-> io, dispatched |-> disp, invoked |-> inv]

\* Repl::handle_command, the arm of a registered command, c being what
\* Command::run returned.
ran_command(name, args, c, io) ==
    [result |-> c.result, io |-> io,
     invoked |-> <<[name |-> name, args |-> args, ran |-> c.ran, result |-> c.result]>>]

\* Mutant: `quit` quits only when no token follows it.
handle_command_QuitAloneQuits(r, name, args, res, io, wf) ==
    IF name = help_name
    THEN LET w == Write(io, LineHelp(help(r)), wf)
         IN  [result |-> IF w.ok THEN Ok("Done") ELSE Err(IoError),
              io |-> w, invoked |-> <<>>]
    ELSE IF name = quit_name
    THEN [result |-> IF args = <<>> THEN Ok("Quit") ELSE Ok("Done"),
          io |-> io, invoked |-> <<>>]
    ELSE IF name \notin DOMAIN r.commands
    THEN [result |-> Panic, io |-> io, invoked |-> <<>>]
    ELSE ran_command(name, args, Command_run(r.commands[name], args, res), io)

\* Repl::handle_command.  invoked lists the handlers run: the name, the
\* arguments passed, whether the user closure was called, and the result.
handle_command(r, name, args, res, io, wf) ==
    IF name = help_name
    THEN LET w == Write(io, LineHelp(help(r)), wf)
         IN  [result |-> IF w.ok THEN Ok("Done") ELSE Err(IoError),
              io |-> w, invoked |-> <<>>]
    ELSE IF name = quit_name
    THEN [result |-> Ok("Quit"), io |-> io, invoked |-> <<>>]
    ELSE IF name \notin DOMAIN r.commands
    THEN [result |-> Panic, io |-> io, invoked |-> <<>>]
    ELSE ran_command(name, args, Command_run(r.commands[name], args, res), io)

\* handle_line: `exact`, the single candidate is the typed token itself.
exact(cands, prefix) == Len(cands) = 1 /\ cands[1] = prefix

\* Mutant: the predict_commands flag is read the wrong way round.
not_found_FlagInverted(r, cands, prefix) ==
    Len(cands) # 1 \/ (r.predict_commands /\ ~exact(cands, prefix))

\* Mutant: the test without the predict_commands flag.
not_found_IgnoresFlag(r, cands, prefix) == Len(cands) # 1

\* handle_line: the test that sends the line to the "Command not found" branch.
not_found(r, cands, prefix) ==
    Len(cands) # 1 \/ (~r.predict_commands /\ ~exact(cands, prefix))

\* handle_line: the test that prints the "Candidates:" block in that branch.
list_candidates(r, cands, prefix) ==
    Len(cands) > 1 \/ (~r.predict_commands /\ ~exact(cands, prefix))

\* Repl::handle_line, the "Command not found" branch.
handle_not_found(r, cands, prefix, wf) ==
    LET w1 == Write(NoOutput, LineNotFound(prefix), wf)
        w2 == IF list_candidates(r, cands, prefix)
              THEN Write(w1, LineCandidates(sort(cands)), wf)
              ELSE w1
        w3 == Write(w2, LineUseHelp, wf)
    IN  IF ~w1.ok THEN Step("Err", IoError, w1, <<>>, <<>>)
        ELSE IF ~w2.ok THEN Step("Err", IoError, w2, <<>>, <<>>)
        ELSE IF ~w3.ok THEN Step("Err", IoError, w3, <<>>, <<>>)
        ELSE Step("Continue", NoError, w3, <<>>, <<>>)

\* Repl::handle_line, the match on what handle_command(name, tail) returned
\* (hc), with the Error: and Usage: lines of a recoverable error.
handle_returned(r, name, tail, hc, wf) ==
    LET disp == <<[name |-> name, args |-> tail]>>
        e == hc.result.err
    IN  IF hc.result.tag = "Panic"
        THEN Step("Panic", NoError, hc.io, disp, hc.invoked)
        ELSE IF hc.result.tag = "Ok"
        THEN Step(IF hc.result.status = "Done" THEN "Continue" ELSE "Break",
                  NoError, hc.io, disp, hc.invoked)
        ELSE IF IsCritical(e)
        THEN Step("Err", e, hc.io, disp, hc.invoked)
        ELSE LET w1 == Write(hc.io, LineError(e), wf)
                 w2 == IF IsArgsError(e)
                       THEN Write(w1, LineUsage(name, r.commands[name].args_info), wf)
                       ELSE w1
             IN  IF ~w1.ok THEN Step("Err", IoError, w1, disp, hc.invoked)
                 ELSE IF ~w2.ok THEN Step("Err", IoError, w2, disp, hc.invoked)
                 ELSE Step("Continue", NoError, w2, disp, hc.invoked)

\* Mutant: a line that cannot be tokenized is skipped without a word.
handle_args_SilentParseError(r, sp, cands, res, wf) ==
    IF ~sp.ok
    THEN Step("Continue", NoError, NoOutput, <<>>, <<>>)
    ELSE IF sp.words = <<>>
    THEN Step("Panic", NoError, NoOutput, <<>>, <<>>)
    ELSE IF not_found(r, cands, sp.words[1])
    THEN handle_not_found(r, cands, sp.words[1], wf)
    ELSE handle_returned(r, cands[1], Tail(sp.words),
                         handle_command(r, cands[1], Tail(sp.words), res, NoOutput, wf),
                         wf)

\* Repl::handle_line once split_args(line) has returned sp.
handle_args(r, sp, cands, res, wf) ==
    IF ~sp.ok
    THEN LET w == Write(NoOutput, LineError(ParseError), wf)
         IN  IF w.ok THEN Step("Continue", NoError, w, <<>>, <<>>)
             ELSE Step("Err", IoError, w, <<>>, <<>>)
    ELSE IF sp.words = <<>>
    THEN Step("Panic", NoError, NoOutput, <<>>, <<>>)
    ELSE IF not_found(r, cands, sp.words[1])
    THEN handle_not_found(r, cands, sp.words[1], wf)
    ELSE handle_returned(r, cands[1], Tail(sp.words),
                         handle_command(r, cands[1], Tail(sp.words), res, NoOutput, wf),
                         wf)

\* Repl::handle_line for a line whose candidates came back from the trie in
\* the order cands.
handle_line(r, line, cands, res, wf) == handle_args(r, split_args(line), cands, res, wf)

\* str::trim
RECURSIVE TrimStart(_)
TrimStart(s) == IF s # <<>> /\ char_is_whitespace(Head(s)) THEN TrimStart(Tail(s)) ELSE s
RECURSIVE TrimEnd(_)
TrimEnd(s) ==
    IF s # <<>> /\ char_is_whitespace(s[Len(s)])
    THEN TrimEnd(SubSeq(s, 1, Len(s) - 1))
    ELSE s
\* Mutant: only the start of the line is trimmed.
trim_StartOnly(s) == TrimStart(s)

trim(s) == TrimEnd(TrimStart(s))

\* Mutant: an interrupt is handled like any other error of the line source.
next_match_InterruptIsError(r, rd, cands, res, wf) ==
    CASE rd.kind = "Line" ->
           IF ~IsBlank(rd.line)
           THEN [step |-> handle_line(r, rd.line, cands, res, wf), hist |-> <<trim(rd.line)>>]
           ELSE [step |-> Step("Continue", NoError, NoOutput, <<>>, <<>>), hist |-> <<>>]
      [] rd.kind = "Eof" ->
           [step |-> Step("Break", NoError, NoOutput, <<>>, <<>>), hist |-> <<>>]
      [] rd.kind \in {"Error", "Interrupted"} ->
           LET w == Write(NoOutput, LineError(ReadlineError), wf)
           IN  [step |-> IF w.ok THEN Step("Continue", NoError, w, <<>>, <<>>)
                         ELSE Step("Err", IoError, w, <<>>, <<>>),
                hist |-> <<>>]

\* Mutant: the end of the input is skipped like a blank line.
next_match_EofContinues(r, rd, cands, res, wf) ==
    CASE rd.kind = "Line" ->
           IF ~IsBlank(rd.line)
           THEN [step |-> handle_line(r, rd.line, cands, res, wf), hist |-> <<trim(rd.line)>>]
           ELSE [step |-> Step("Continue", NoError, NoOutput, <<>>, <<>>), hist |-> <<>>]
      [] rd.kind = "Interrupted" ->
           LET w == Write(NoOutput, LineCtrlC, wf)
           IN  [step |-> IF w.ok THEN Step("Break", NoError, w, <<>>, <<>>)
                         ELSE Step("Err", IoError, w, <<>>, <<>>),
                hist |-> <<>>]
      [] rd.kind = "Eof" ->
           [step |-> Step("Continue", NoError, NoOutput, <<>>, <<>>), hist |-> <<>>]
      [] rd.kind = "Error" ->
           LET w == Write(NoOutput, LineError(ReadlineError), wf)
           IN  [step |-> IF w.ok THEN Step("Continue", NoError, w, <<>>, <<>>)
                         ELSE Step("Err", IoError, w, <<>>, <<>>),
                hist |-> <<>>]

\* Mutant: an error of the line source is printed and breaks the loop.
next_match_ErrorBreaks(r, rd, cands, res, wf) ==
    CASE rd.kind = "Line" ->
           IF ~IsBlank(rd.line)
           THEN [step |-> handle_line(r, rd.line, cands, res, wf), hist |-> <<trim(rd.line)>>]
           ELSE [step |-> Step("Continue", NoError, NoOutput, <<>>, <<>>), hist |-> <<>>]
      [] rd.kind = "Interrupted" ->
           LET w == Write(NoOutput, LineCtrlC, wf)
           IN  [step |-> IF w.ok THEN Step("Break", NoError, w, <<>>, <<>>)
                         ELSE Step("Err", IoError, w, <<>>, <<>>),
                hist |-> <<>>]
      [] rd.kind = "Eof" ->
           [step |-> Step("Break", NoError, NoOutput, <<>>, <<>>), hist |-> <<>>]
      [] rd.kind = "Error" ->
           LET w == Write(NoOutput, LineError(ReadlineError), wf)
           IN  [step |-> IF w.ok THEN Step("Break", NoError, w, <<>>, <<>>)
                         ELSE Step("Err", IoError, w, <<>>, <<>>),
                hist |-> <<>>]

\* The match of Repl::next on what readline returned.  hist is what the step
\* adds to the editor's history.
next_match(r, rd, cands, res, wf) ==
    CASE rd.kind = "Line" ->
           IF ~IsBlank(rd.line)
           THEN [step |-> handle_line(r, rd.line, cands, res, wf), hist |-> <<trim(rd.line)>>]
           ELSE [step |-> Step("Continue", NoError, NoOutput, <<>>, <<>>), hist |-> <<>>]
      [] rd.kind = "Interrupted" ->
           LET w == Write(NoOutput, LineCtrlC, wf)
           IN  [step |-> IF w.ok THEN Step("Break", NoError, w, <<>>, <<>>)
                         ELSE Step("Err", IoError, w, <<>>, <<>>),
                hist |-> <<>>]
      [] rd.kind = "Eof" ->
           [step |-> Step("Break", NoError, NoOutput, <<>>, <<>>), hist |-> <<>>]
      [] rd.kind = "Error" ->
           LET w == Write(NoOutput, LineError(ReadlineError), wf)
           IN  [step |-> IF w.ok THEN Step("Continue", NoError, w, <<>>, <<>>)
                         ELSE Step("Err", IoError, w, <<>>, <<>>),
                hist |-> <<>>]

\* The candidates handle_line looks up when split_args returns sp.
LookupArgs(r, sp) ==
    IF sp.ok /\ sp.words # <<>> THEN completion_candidates(r.trie, sp.words[1]) ELSE {}

\* The candidates handle_line looks up for a read result (the set).
Lookup(r, rd) ==
    IF rd.kind = "Line" /\ ~IsBlank(rd.line) THEN LookupArgs(r, split_args(rd.line)) ELSE {}

\* Mutant: run makes one step only (an `if let` for the `while let`).
run_loop_Once(step) ==
    CASE step.ret = "Continue" -> [pc |-> "returned", result |-> Ok("Done")]
      [] step.ret = "Break" -> [pc |-> "returned", result |-> Ok("Done")]
      [] step.ret = "Err" -> [pc |-> "returned", result |-> Err(step.err)]
      [] step.ret = "Panic" -> [pc |-> "returned", result |-> Panic]

\* Mutant: run loops on whatever Ok status next returns.
run_loop_IgnoresBreak(step) ==
    CASE step.ret = "Continue" -> [pc |-> "awaiting", result |-> Ok("-")]
      [] step.ret = "Break" -> [pc |-> "awaiting", result |-> Ok("-")]
      [] step.ret = "Err" -> [pc |-> "returned", result |-> Err(step.err)]
      [] step.ret = "Panic" -> [pc |-> "returned", result |-> Panic]

\* Mutant: run returns Ok(()) when next returns an error.
run_loop_ErrIsOk(step) ==
    CASE step.ret = "Continue" -> [pc |-> "awaiting", result |-> Ok("-")]
      [] step.ret = "Break" -> [pc |-> "returned", result |-> Ok("Done")]
      [] step.ret = "Err" -> [pc |-> "returned", result |-> Ok("Done")]
      [] step.ret = "Panic" -> [pc |-> "returned", result |-> Panic]

\* Repl::run : `while let LoopStatus::Continue = self.next()? {}` and then
\* Ok(()), decided on the result of one step.  Gives where the caller is
\* next and what run has returned.
run_loop(step) ==
    CASE step.ret = "Continue" -> [pc |-> "awaiting", result |-> Ok("-")]
      [] step.ret = "Break" -> [pc |-> "returned", result |-> Ok("Done")]
      [] step.ret = "Err" -> [pc |-> "returned", result |-> Err(step.err)]
      [] step.ret = "Panic" -> [pc |-> "returned", result |-> Panic]

\* ------------------------------------------------------------------ state

VARIABLES
    builder,      \* the ReplBuilder: added commands, predict_commands
    pc,           \* "builder", "build_failed", "built" (a Repl exists),
                  \* "awaiting" (run is in readline), "handling" (readline
                  \* has returned), "returned" (run has returned)
    build_result, \* what build returned: tag and error
    repl,         \* the Repl: commands, trie, predict_commands
    read,         \* what readline returned in the current step
    cands,        \* the candidates the trie returned in the current step
    out,          \* what the current step wrote to `out`
    writes,       \* the writes the current step attempted, and those that failed
    dispatched,   \* the calls of handle_command in the current step
    invoked,      \* the handlers the current step ran
    history,      \* what the current step added to the history
    status,       \* what the last call of next returned
    run_result,   \* what run returned
    call,         \* a handler generated by command! called on its own:
                  \* its types and arguments, where it is (pc, i), the
                  \* positions it has parsed, what the validator returned,
                  \* the calls of the closure, and its result
    nest,         \* sessions run one inside another: the stack of the Repls
                  \* whose run is on the call stack, outermost first, each
                  \* with where it is and what its current step did
    message,      \* what Repl::help returned when it was called on its own
    edit,         \* a line under edition: the helper of the editor, the line and
                  \* the cursor it passes to its hinter, and what hint returned
    captured      \* the state the closures of the handlers capture: the calls
                  \* they have recorded in it, and, for the record, the
                  \* commands of the lines read so far that were valid

vars == <<builder, pc, build_result, repl, read, cands, out, writes, dispatched,
          invoked, history, status, run_result, call, nest, message, edit, captured>>

NoStep == [ret |-> "None", err |-> NoError]

\* ReplBuilder::default (the fields the loop uses); also what is left of a
\* builder that build has consumed.
NoBuilder == [commands |-> <<>>, predict_commands |-> TRUE]
NoWrites == [attempted |-> 0, failed |-> {}]

\* Nothing was recorded by a closure.
NoCaptured == [state |-> <<>>, applied |-> <<>>]

\* No line is under edition.
NoEdit == [pc |-> "none", with_hints |-> TRUE, with_completion |-> TRUE,
           line |-> <<>>, pos |-> 0, hint |-> [tag |-> "None", text |-> <<>>],
           completion |-> [start |-> 0, candidates |-> {}], dispatched |-> <<>>,
           editor_config |-> [output_stream |-> "Stderr", completion_type |-> "List"],
           config |-> [output_stream |-> "Stderr", completion_type |-> "List"]]

\* No handler is called on its own.
NoCall == [pc |-> "none", types |-> <<>>, args |-> <<>>, i |-> 0, parsed |-> <<>>,
           validation |-> "-", closure |-> <<>>, result |-> [tag |-> "None", status |-> "-", err |-> NoError]]

\* ReplBuilder::default (the fields the loop uses), no Repl yet.
Init ==
    /\ builder = NoBuilder
    /\ pc = "builder"
    /\ build_result = [tag |-> "None", error |-> NoBuilderError]
    /\ repl = [commands |-> NoCommands, trie |-> TrieBuilder_new, predict_commands |-> TRUE]
    /\ read = NoRead
    /\ cands = <<>>
    /\ out = <<>>
    /\ writes = NoWrites
    /\ dispatched = <<>>
    /\ invoked = <<>>
    /\ history = <<>>
    /\ status = NoStep
    /\ run_result = [tag |-> "None", status |-> "-", err |-> NoError]
    /\ call = NoCall
    /\ nest = <<>>
    /\ message = <<>>
    /\ edit = NoEdit
    /\ captured = NoCaptured

session == <<read, cands, out, writes, dispatched, invoked, history, status, run_result,
             call, nest, message, edit, captured>>

\* ReplBuilder::add
add(name, cmd) ==
    /\ pc = "builder"
    /\ Len(builder.commands) < MaxAdded
    /\ builder' = [builder EXCEPT
                     !.commands = Append(@, [name |-> name, cmd |-> cmd])]
    /\ UNCHANGED <<pc, build_result, repl, session>>

\* ReplBuilder::predict_commands (setter)
predict_commands(v) ==
    /\ pc = "builder"
    /\ builder' = [builder EXCEPT !.predict_commands = v]
    /\ UNCHANGED <<pc, build_result, repl, session>>

\* ReplBuilder::build
Build ==
    /\ pc = "builder"
    /\ LET b == build(builder)
       IN  /\ build_result' = [tag |-> b.tag, error |-> b.error]
           /\ pc' = IF b.tag = "Ok" THEN "built" ELSE "build_failed"
           /\ repl' = IF b.tag = "Ok"
                      THEN [commands |-> b.commands, trie |-> b.trie,
                            predict_commands |-> builder.predict_commands]
                      ELSE repl
    /\ UNCHANGED <<builder, session>>

\* Repl::run is called: the loop enters its first next().  build took the
\* builder by value; what it was called with is kept in `builder` until
\* here and forgotten now.
run ==
    /\ pc = "built"
    /\ pc' = "awaiting"
    /\ run_result' = Ok("-")
    /\ builder' = NoBuilder
    /\ UNCHANGED <<build_result, repl, read, cands, out, writes, dispatched,
                   invoked, history, status, call, nest, message, edit, captured>>

\* Repl::next, first half: self.editor.readline(&self.prompt) returns.
readline(rd) ==
    /\ pc = "awaiting"
    /\ pc' = "handling"
    /\ read' = rd
    /\ cands' = <<>>
    /\ out' = <<>>
    /\ writes' = NoWrites
    /\ dispatched' = <<>>
    /\ invoked' = <<>>
    /\ history' = <<>>
    /\ UNCHANGED <<builder, build_result, repl, status, run_result, call, nest, message, edit, captured>>

\* Mutant: a command is taken out of the map when its handler is run
\* (HashMap::remove for get_mut).
next_RemovesRun ==
    /\ pc = "handling"
    /\ \E c \in Orderings(Lookup(repl, read)), res \in ClosureResults, wf \in WriteFailures :
         \E n \in {next_match(repl, read, c, res, wf)} :
            /\ cands' = c
            /\ out' = n.step.io.out
            /\ writes' = [attempted |-> n.step.io.n, failed |-> n.step.io.failed]
            /\ dispatched' = n.step.dispatched
            /\ invoked' = n.step.invoked
            /\ history' = n.hist
            /\ status' = [ret |-> n.step.ret, err |-> n.step.err]
            /\ pc' = run_loop(n.step).pc
            /\ run_result' = run_loop(n.step).result
            /\ repl' = IF n.step.invoked = <<>> THEN repl
                       ELSE [repl EXCEPT !.commands =
                               [k \in DOMAIN repl.commands \ {n.step.invoked[1].name} |->
                                   repl.commands[k]]]
    /\ UNCHANGED <<builder, build_result, read, call, nest, message, edit, captured>>

\* Repl::next, second half: the match on the read result, with handle_line
\* and handle_command, and the test of run's loop on what next returned.
next ==
    /\ pc = "handling"
    /\ \E c \in Orderings(Lookup(repl, read)), res \in ClosureResults, wf \in WriteFailures :
         \E n \in {next_match(repl, read, c, res, wf)} :
            /\ cands' = c
            /\ out' = n.step.io.out
            /\ writes' = [attempted |-> n.step.io.n, failed |-> n.step.io.failed]
            /\ dispatched' = n.step.dispatched
            /\ invoked' = n.step.invoked
            /\ history' = n.hist
            /\ status' = [ret |-> n.step.ret, err |-> n.step.err]
            /\ pc' = run_loop(n.step).pc
            /\ run_result' = run_loop(n.step).result
    /\ UNCHANGED <<builder, build_result, repl, read, call, nest, message, edit, captured>>

Next ==
    \/ \E name \in Names : \E cmd \in Commands(name) : add(name, cmd)
    \/ \E v \in BOOLEAN : predict_commands(v)
    \/ Build
    \/ run
    \/ \E rd \in ReadResults : readline(rd)
    \/ next

Spec == Init /\ [][Next]_vars

\* ------------------------------------------------------------------ a generated handler, step by step

\* Lists of at most n elements of S.
SeqsUpTo(S, n) == UNION {[1..k -> S] : k \in 0..n}

\* The types a command declares, and the texts of the arguments it may be
\* given: a number, a word, a two-digit number, the empty text, and a number
\* that does not fit 32 bits.
Types == {"String", "i32"}
ArgTexts == {<<"1">>, <<"x">>, <<"1", "2">>, <<>>,
             <<"2", "2", "2", "2", "2", "2", "2", "2", "2", "2">>}

\* Command::run on a command made by command! with the types `types`, called
\* with `args`; nothing else exists.
CommandInit ==
    /\ builder = NoBuilder
    /\ pc = "builder"
    /\ build_result = [tag |-> "None", error |-> NoBuilderError]
    /\ repl = [commands |-> NoCommands, trie |-> TrieBuilder_new, predict_commands |-> TRUE]
    /\ read = NoRead
    /\ cands = <<>>
    /\ out = <<>>
    /\ writes = NoWrites
    /\ dispatched = <<>>
    /\ invoked = <<>>
    /\ history = <<>>
    /\ status = NoStep
    /\ run_result = [tag |-> "None", status |-> "-", err |-> NoError]
    /\ \E types \in SeqsUpTo(Types, MaxTypes), args \in SeqsUpTo(ArgTexts, MaxArgs) :
         call = [NoCall EXCEPT !.pc = "validator", !.types = types, !.args = args]
    /\ nest = <<>>
    /\ message = <<>>
    /\ edit = NoEdit
    /\ captured = NoCaptured

repl_vars == <<builder, pc, build_result, repl, read, cands, out, writes, dispatched,
               invoked, history, status, run_result, nest, message, edit, captured>>

\* Mutant: the number of arguments is only checked not to exceed the
\* number of types.
validator_arity_AtMost ==
    /\ call.pc = "validator"
    /\ call' = IF Len(call.args) > Len(call.types)
               THEN [call EXCEPT !.pc = "returned", !.validation = "Err",
                       !.result = Err(WrongNumberOfArguments(Len(call.args),
                                                             Len(call.types)))]
               ELSE [call EXCEPT !.pc = "parsing", !.i = 1]
    /\ UNCHANGED repl_vars

\* validator! : the check of the number of arguments, then `let mut i = 0`
\* (positions count from 1 here).
validator_arity ==
    /\ call.pc = "validator"
    /\ call' = IF Len(call.args) # Len(call.types)
               THEN [call EXCEPT !.pc = "returned", !.validation = "Err",
                       !.result = Err(WrongNumberOfArguments(Len(call.args),
                                                             Len(call.types)))]
               ELSE [call EXCEPT !.pc = "parsing", !.i = 1]
    /\ UNCHANGED repl_vars

\* Mutant: a failed parse is remembered and the loop goes on, so that the
\* last failure is the one reported.
validator_parse_ReportsLast ==
    /\ call.pc = "parsing" /\ call.i <= Len(call.types)
    /\ call' =
         IF call.i > Len(call.args)
         THEN [call EXCEPT !.pc = "returned", !.result = Panic]
         ELSE LET failed == ~Parses(call.types[call.i], call.args[call.i])
                  res == IF failed
                         THEN Err(WrongArgumentValue(call.args[call.i],
                                    ParseErr(call.types[call.i], call.args[call.i])))
                         ELSE call.result
              IN  IF call.i = Len(call.types) /\ res.tag = "Err"
                  THEN [call EXCEPT !.pc = "returned", !.result = res,
                                    !.validation = "Err",
                                    !.parsed = Append(@, call.i)]
                  ELSE [call EXCEPT !.i = @ + 1, !.result = res,
                                    !.parsed = Append(@, call.i)]
    /\ UNCHANGED repl_vars

\* Mutant: only the first argument is parsed.
validator_parse_FirstOnly ==
    /\ call.pc = "parsing" /\ call.i <= Len(call.types)
    /\ call' =
         IF call.i > Len(call.args)
         THEN [call EXCEPT !.pc = "returned", !.result = Panic]
         ELSE IF ~Parses(call.types[call.i], call.args[call.i])
         THEN [call EXCEPT !.pc = "returned",
                 !.result = Err(WrongArgumentValue(call.args[call.i],
                                  ParseErr(call.types[call.i], call.args[call.i]))),
                 !.validation = "Err",
                 !.parsed = Append(@, call.i)]
         ELSE [call EXCEPT !.i = Len(call.types) + 1, !.parsed = Append(@, call.i)]
    /\ UNCHANGED repl_vars

\* validator! : one repetition of the block generated per type: parse
\* args[i] as the i-th type, return WrongArgumentValue if that fails, else
\* `i += 1`.  Indexing args beyond its length panics.
validator_parse ==
    /\ call.pc = "parsing" /\ call.i <= Len(call.types)
    /\ call' =
         IF call.i > Len(call.args)
         THEN [call EXCEPT !.pc = "returned", !.result = Panic]
         ELSE IF ~Parses(call.types[call.i], call.args[call.i])
         THEN [call EXCEPT !.pc = "returned",
                 !.result = Err(WrongArgumentValue(call.args[call.i],
                                  ParseErr(call.types[call.i], call.args[call.i]))),
                 !.validation = "Err",
                 !.parsed = Append(@, call.i)]
         ELSE [call EXCEPT !.i = @ + 1, !.parsed = Append(@, call.i)]
    /\ UNCHANGED repl_vars

\* validator! : Ok(()) after the last type; `validator(args)?` passes.
validator_ok ==
    /\ call.pc = "parsing" /\ call.i > Len(call.types)
    /\ call' = [call EXCEPT !.pc = "validated", !.validation = "Ok"]
    /\ UNCHANGED repl_vars

\* Mutant: the closure gets the parsed values in reverse order.
handler_call_Reversed(res) ==
    /\ call.pc = "validated"
    /\ LET n == Len(call.types)
       IN  call' =
             IF \E k \in 1..n : k > Len(call.args) \/ ~Parses(call.types[k], call.args[k])
             THEN [call EXCEPT !.pc = "returned", !.result = Panic]
             ELSE [call EXCEPT !.pc = "returned", !.result = res,
                     !.closure = Append(@, [k \in 1..n |->
                         ParseValue(call.types[n + 1 - k], call.args[n + 1 - k])])]
    /\ UNCHANGED repl_vars

\* command! (@handler_call): every args[k] is parsed again as the k-th type
\* and unwrapped (a failure panics), the closure is called with the values,
\* and what it returns is what the handler returns.
handler_call(res) ==
    /\ call.pc = "validated"
    /\ LET n == Len(call.types)
       IN  call' =
             IF \E k \in 1..n : k > Len(call.args) \/ ~Parses(call.types[k], call.args[k])
             THEN [call EXCEPT !.pc = "returned", !.result = Panic]
             ELSE [call EXCEPT !.pc = "returned", !.result = res,
                     !.closure = Append(@, [k \in 1..n |->
                         ParseValue(call.types[k], call.args[k])])]
    /\ UNCHANGED repl_vars

CommandNext ==
    \/ validator_arity
    \/ validator_parse
    \/ validator_ok
    \/ \E res \in ClosureResults : handler_call(res)

CommandSpec == CommandInit /\ [][CommandNext]_vars

\* ------------------------------------------------------------------ sessions inside sessions

\* How many sessions run one inside another.
MaxDepth == 3

new_name == <<"n", "e", "w">>

\* The commands of the Repl of depth d (1: the one main builds and runs;
\* d + 1: the one the closure of `new` at depth d builds and runs): `new` at
\* every depth, `add` at the odd depths and `hi` at the even ones.
NestedAdded(d) ==
    <<[name |-> new_name,
       cmd  |-> command("Enter new shell", <<[name |-> "name", type |-> "String"]>>)],
      IF d % 2 = 1 THEN [name |-> add_name, cmd |-> CommandFor(add_name)]
      ELSE [name |-> hi_name, cmd |-> CommandFor(hi_name)]>>

\* The Repl that build returned for a builder b whose names are good.
Built(b, r) ==
    [commands |-> r.commands, trie |-> r.trie, predict_commands |-> b.predict_commands]
NestedBuilder(d) == [commands |-> NestedAdded(d), predict_commands |-> TRUE]
NestedRepl(d) == Built(NestedBuilder(d), build(NestedBuilder(d)))

NoResult == [tag |-> "None", status |-> "-", err |-> NoError]

\* A session whose run has just been called: its Repl, where it is
\* ("awaiting", "handling", "in_handler": its handler is running a session of
\* its own, "returned"), what its current step read and did, what run
\* returned, what the session run by its handler returned, and, for the
\* record, the depth at which the critical error it returns was raised.
Session(d) ==
    [repl |-> NestedRepl(d), pc |-> "awaiting", read |-> NoRead, cands |-> <<>>,
     out |-> <<>>, dispatched |-> <<>>, invoked |-> <<>>, status |-> NoStep,
     run_result |-> Ok("-"), nested |-> NoResult, origin |-> 0]

\* Lines the line source delivers to sessions of any depth.
NestedLines == {new_name \o <<"sp", "x">>, new_name, add_name \o <<"sp", "1", "sp", "2">>,
                hi_name \o <<"sp", "x">>, quit_name, <<"x">>}
NestedReads == {[kind |-> "Line", line |-> l] : l \in NestedLines}
               \cup {[kind |-> "Eof", line |-> <<>>]}

\* main has built the outermost Repl and called run.
NestedInit ==
    /\ builder = NoBuilder
    /\ pc = "builder"
    /\ build_result = [tag |-> "None", error |-> NoBuilderError]
    /\ repl = [commands |-> NoCommands, trie |-> TrieBuilder_new, predict_commands |-> TRUE]
    /\ read = NoRead
    /\ cands = <<>>
    /\ out = <<>>
    /\ writes = NoWrites
    /\ dispatched = <<>>
    /\ invoked = <<>>
    /\ history = <<>>
    /\ status = NoStep
    /\ run_result = NoResult
    /\ call = NoCall
    /\ nest = <<Session(1)>>
    /\ message = <<>>
    /\ edit = NoEdit
    /\ captured = NoCaptured

flat_vars == <<builder, pc, build_result, repl, read, cands, out, writes, dispatched,
               invoked, history, status, run_result, call, message, edit, captured>>

\* The step ran the closure of `new`.
CallsNew(step) ==
    step.invoked # <<>> /\ step.invoked[1].name = new_name /\ step.invoked[1].ran

\* handle_line on the line of session f reaches the closure of `new` (no
\* write precedes the call of a handler, and what the closure returns does
\* not decide whether it is called).
EntersNested(f, c) == CallsNew(next_match(f.repl, f.read, c, Ok("Done"), {}).step)

\* The depth at which a critical error was raised by the closure run in
\* this step, 0 if none was.
RaisedAt(step, d) ==
    IF step.invoked # <<>> /\ step.invoked[1].ran
       /\ step.invoked[1].result = Err(CriticalError)
    THEN d ELSE 0

\* Session f after the step n = next_match(..) for candidates c and, as
\* Repl::run does, the test of its loop.
Stepped(f, c, n, nested, origin) ==
    [f EXCEPT !.cands = c,
              !.out = n.step.io.out,
              !.dispatched = n.step.dispatched,
              !.invoked = n.step.invoked,
              !.status = [ret |-> n.step.ret, err |-> n.step.err],
              !.pc = run_loop(n.step).pc,
              !.run_result = run_loop(n.step).result,
              !.nested = nested,
              !.origin = origin]

\* Mutant: any session whose run is on the call stack reads the line.
nested_readline_AnySession(rd) ==
    /\ nest # <<>>
    /\ \E k \in 1..Len(nest) :
         /\ nest[k].pc \in {"awaiting", "in_handler"}
         /\ nest' = [nest EXCEPT ![k] =
                       [@ EXCEPT !.pc = "handling", !.read = rd, !.cands = <<>>, !.out = <<>>,
                                 !.dispatched = <<>>, !.invoked = <<>>, !.nested = NoResult,
                                 !.origin = 0]]
    /\ UNCHANGED flat_vars

\* Repl::next of the innermost session, first half: readline returns.
nested_readline(rd) ==
    /\ nest # <<>>
    /\ nest[Len(nest)].pc = "awaiting"
    /\ nest' = [nest EXCEPT ![Len(nest)] =
                  [@ EXCEPT !.pc = "handling", !.read = rd, !.cands = <<>>, !.out = <<>>,
                            !.dispatched = <<>>, !.invoked = <<>>, !.nested = NoResult,
                            !.origin = 0]]
    /\ UNCHANGED flat_vars

\* The line of the innermost session reaches the closure of `new`, which
\* builds the Repl of the next depth and calls its run.
nested_enter ==
    /\ nest # <<>>
    /\ nest[Len(nest)].pc = "handling"
    /\ Len(nest) < MaxDepth
    /\ \E c \in Orderings(Lookup(nest[Len(nest)].repl, nest[Len(nest)].read)) :
         /\ EntersNested(nest[Len(nest)], c)
         /\ nest' = Append([nest EXCEPT ![Len(nest)] =
                               [@ EXCEPT !.pc = "in_handler", !.cands = c]],
                           Session(Len(nest) + 1))
    /\ UNCHANGED flat_vars

\* Repl::next of the innermost session, second half, for a line that runs
\* no session (at the last depth the closure of `new` returns any result).
nested_next ==
    /\ nest # <<>>
    /\ nest[Len(nest)].pc = "handling"
    /\ \E c \in Orderings(Lookup(nest[Len(nest)].repl, nest[Len(nest)].read)),
          res \in ClosureResults, wf \in WriteFailures :
         /\ EntersNested(nest[Len(nest)], c) => Len(nest) = MaxDepth
         /\ \E n \in {next_match(nest[Len(nest)].repl, nest[Len(nest)].read, c, res, wf)} :
              nest' = [nest EXCEPT ![Len(nest)] =
                         Stepped(@, c, n, NoResult, RaisedAt(n.step, Len(nest)))]
    /\ UNCHANGED flat_vars

\* What the closure of `new` may return once the run it called has returned
\* r: the error of that run (`run()?`) or, ignoring it, Ok(Done).
NewReturns(r) == IF r.tag = "Err" THEN {Err(r.err), Ok("Done")} ELSE {Ok("Done")}

\* The run of the innermost session has returned to the closure that called
\* it; the closure returns, and the enclosing session finishes its step.
nested_exit ==
    /\ Len(nest) > 1
    /\ nest[Len(nest)].pc = "returned"
    /\ \E res \in NewReturns(nest[Len(nest)].run_result), wf \in WriteFailures :
         \E f \in {nest[Len(nest) - 1]} :
           \E n \in {next_match(f.repl, f.read, f.cands, res, wf)} :
              nest' = [SubSeq(nest, 1, Len(nest) - 1) EXCEPT ![Len(nest) - 1] =
                         Stepped(f, f.cands, n, nest[Len(nest)].run_result,
                                 IF res = Err(CriticalError)
                                 THEN nest[Len(nest)].origin ELSE 0)]
    /\ UNCHANGED flat_vars

NestedNext ==
    \/ \E rd \in NestedReads : nested_readline(rd)
    \/ nested_enter
    \/ nested_next
    \/ nested_exit

NestedSpec == NestedInit /\ [][NestedNext]_vars

\* ------------------------------------------------------------------ the help message

\* Most commands of a Repl whose help message is asked for.
MaxListed == 3

\* str::len : the length in bytes.
RECURSIVE str_len(_)
str_len(s) ==
    IF s = <<>> THEN 0
    ELSE (IF Head(s) \in {"e_acute", "nbsp"} THEN 2 ELSE 1) + str_len(Tail(s))

\* [String]::join
RECURSIVE join(_, _)
join(v, sep) ==
    IF v = <<>> THEN <<>>
    ELSE IF Len(v) = 1 THEN v[1]
    ELSE v[1] \o sep \o join(Tail(v), sep)

\* stringify!($type)
TypeText(type) ==
    CASE type = "i32" -> <<"i", "3", "2">>
      [] type = "String" -> <<"S", "t", "r", "i", "n", "g">>

\* command! : one element of args_info, concat!(name, ":", type).
ArgInfoText(a) == a.name \o <<":">> \o TypeText(a.type)

\* Repl::help, the closure `signature`: "{} {}" of the name and args_info
\* joined by a space.
signature(r, name) ==
    name \o <<"sp">>
         \o join([i \in 1..Len(r.commands[name].args_info) |->
                     ArgInfoText(r.commands[name].args_info[i])], <<"sp">>)

\* format!("{:width$}", s) : s followed by spaces up to width characters.
Pad(s, width) ==
    IF Len(s) >= width THEN s ELSE s \o [k \in 1..(width - Len(s)) |-> "sp"]

\* ReplBuilder::default, text_width
text_width == 80

\* textwrap::fill on a line that fits the width and does not end in a
\* space: the line itself (longer lines are not given to it here).
fill(line, width) ==
    CASE Len(line) <= width /\ line[Len(line)] # "sp" -> line

MaxOf(S) == CHOOSE x \in S : \A y \in S : y <= x

\* One line of a help block: the padded `name signature`, the description.
entry_line(e, width) ==
    fill(<<"sp", "sp">> \o Pad(e.sig, width) \o <<"sp", "sp">> \o e.desc, text_width)

\* Repl::format_help_entries : the lines of a block (joined by "\n" in the
\* code); the width is the largest byte length of a `name signature`.
format_help_entries(entries) ==
    IF entries = <<>> THEN <<>>
    ELSE [k \in 1..Len(entries) |->
            entry_line(entries[k],
                       MaxOf({str_len(entries[i].sig) : i \in 1..Len(entries)}))]

\* The lines a "{}" of the format string of Repl::help takes: an empty
\* string is one empty line.
LinesOf(block) == IF block = <<>> THEN << <<>> >> ELSE block

HeaderAvailable == <<"Available commands:">>
HeaderOther == <<"Other commands:">>

\* repl.rs RESERVED with the descriptions.
RESERVED_entries ==
    <<[sig |-> help_name,
       desc |-> <<"S", "h", "o", "w", "sp", "t", "h", "i", "s", "sp", "h", "e", "l", "p",
                  "sp", "m", "e", "s", "s", "a", "g", "e">>],
      [sig |-> quit_name, desc |-> <<"Q", "u", "i", "t", "sp", "r", "e", "p", "l">>]>>

\* str::trim on the message, line by line: the blank lines at both ends go.
RECURSIVE TrimLines(_)
TrimLines(ls) ==
    IF ls # <<>> /\ IsBlank(Head(ls)) THEN TrimLines(Tail(ls))
    ELSE IF ls # <<>> /\ IsBlank(ls[Len(ls)]) THEN TrimLines(SubSeq(ls, 1, Len(ls) - 1))
    ELSE ls

\* The entries of the registered commands, names is their sorted list.
user_entries(r, names) ==
    [k \in 1..Len(names) |->
        [sig |-> signature(r, names[k]), desc |-> r.commands[names[k]].description]]

\* Repl::help : the message as its lines.
help_message(r) ==
    TrimLines(<< <<>>, r.description, <<>>, HeaderAvailable >>
              \o LinesOf(format_help_entries(
                     user_entries(r, sort(CHOOSE v \in Orderings(DOMAIN r.commands) : TRUE))))
              \o << <<>>, HeaderOther >>
              \o LinesOf(format_help_entries(RESERVED_entries))
              \o << <<"sp", "sp", "sp", "sp", "sp", "sp", "sp", "sp">> >>)

\* The commands a help message is asked for: with two arguments, with one,
\* with none, and two whose names hold a character of two bytes.
HelpNames == {add_name, hi_name, <<"a">>, <<"e_acute">>, <<"e_acute", "x">>}
HelpCommands(name) ==
    CASE name = add_name ->
           {command(<<"A", "d", "d">>, <<[name |-> <<"X">>, type |-> "i32"],
                                         [name |-> <<"Y">>, type |-> "i32"]>>)}
      [] name = hi_name ->
           {command(<<"S", "a", "y", "sp", "h", "i">>, <<[name |-> <<"n">>, type |-> "String"]>>),
            command(<<"H", "i">>, <<[name |-> <<>>, type |-> "i32"]>>)}
      [] OTHER -> {command(<<"R", "u", "n">>, <<>>)}

\* One command for each name.
HelpChoices ==
    {c \in [HelpNames -> UNION {HelpCommands(n) : n \in HelpNames}] :
        \A n \in HelpNames : c[n] \in HelpCommands(n)}

\* A builder to which the names of S were added, with the commands c.
HelpBuilder(S, c) ==
    [commands |-> [i \in 1..Cardinality(S) |->
                     [name |-> (CHOOSE v \in Orderings(S) : TRUE)[i],
                      cmd  |-> c[(CHOOSE v \in Orderings(S) : TRUE)[i]]]],
     predict_commands |-> TRUE]

\* ReplBuilder::description : none (the default) or a text.
Descriptions == {<<>>, <<"M", "y">>}

\* The Repl build returns, with its description.
Described(r, d) ==
    [commands |-> r.commands, trie |-> r.trie, predict_commands |-> r.predict_commands,
     description |-> d]

\* A Repl was built from at most MaxListed commands; nothing else exists.
HelpInit ==
    /\ builder = NoBuilder
    /\ pc = "built"
    /\ build_result = [tag |-> "Ok", error |-> NoBuilderError]
    /\ \E S \in {T \in SUBSET HelpNames : Cardinality(T) <= MaxListed},
          c \in HelpChoices, d \in Descriptions :
          repl = Described(Built(HelpBuilder(S, c), build(HelpBuilder(S, c))), d)
    /\ read = NoRead
    /\ cands = <<>>
    /\ out = <<>>
    /\ writes = NoWrites
    /\ dispatched = <<>>
    /\ invoked = <<>>
    /\ history = <<>>
    /\ status = NoStep
    /\ run_result = NoResult
    /\ call = NoCall
    /\ nest = <<>>
    /\ message = <<>>
    /\ edit = NoEdit
    /\ captured = NoCaptured

\* Repl::help is called.
Repl_help ==
    /\ pc = "built"
    /\ message = <<>>
    /\ message' = help_message(repl)
    /\ UNCHANGED <<builder, pc, build_result, repl, read, cands, out, writes, dispatched,
                   invoked, history, status, run_result, call, nest, edit, captured>>

HelpNext == Repl_help

HelpSpec == HelpInit /\ [][HelpNext]_vars

\* ------------------------------------------------------------------ hints

\* Most commands of a Repl whose editor is asked for a hint.
MaxHinted == 2

\* completion.rs whitespace_before: how many chars of whitespace the line
\* starts with.
RECURSIVE whitespace_before(_)
whitespace_before(line) ==
    IF line # <<>> /\ char_is_whitespace(Head(line))
    THEN 1 + whitespace_before(Tail(line))
    ELSE 0

\* str::is_char_boundary : the byte index at is where a char of s starts, or
\* the end of s.
is_char_boundary(s, at) == \E k \in 0..Len(s) : str_len(SubSeq(s, 1, k)) = at

\* The number of chars of s before the byte index at.
CharsBefore(s, at) == CHOOSE k \in 0..Len(s) : str_len(SubSeq(s, 1, k)) = at

\* &s[from..to] : the indices are in bytes; it panics (ok is FALSE) unless
\* from <= to and both are char boundaries of s.
Slice(s, from, to) ==
    IF from <= to /\ is_char_boundary(s, from) /\ is_char_boundary(s, to)
    THEN [ok |-> TRUE, text |-> SubSeq(s, CharsBefore(s, from) + 1, CharsBefore(s, to))]
    ELSE [ok |-> FALSE, text |-> <<>>]

NoHint == [tag |-> "None", text |-> <<>>]
SomeHint(t) == [tag |-> "Some", text |-> t]
HintPanic == [tag |-> "Panic", text |-> <<>>]

\* candidates[0][from..].into()
hint_rest(tail) == IF tail.ok THEN SomeHint(tail.text) ELSE HintPanic

\* Mutant: the first candidate is hinted when there are several.
hint_candidates_FirstOfMany(candidates, from) ==
    IF Cardinality(candidates) >= 1
    THEN hint_rest(Slice(CHOOSE n \in candidates : TRUE, from,
                         str_len(CHOOSE n \in candidates : TRUE)))
    ELSE NoHint

\* Completion::hint, its last branch: a hint when there is one candidate.
hint_candidates(candidates, from) ==
    IF Cardinality(candidates) = 1
    THEN hint_rest(Slice(CHOOSE n \in candidates : TRUE, from,
                         str_len(CHOOSE n \in candidates : TRUE)))
    ELSE NoHint

\* Completion::hint once `prefix` was sliced out of the line.
hint_prefix(trie, line, pos, start, prefix) ==
    IF ~prefix.ok THEN HintPanic
    ELSE IF pos < str_len(line) \/ prefix.text = <<>> THEN NoHint
    ELSE hint_candidates(completion_candidates(trie, prefix.text), pos - start)

\* Completion::hint
hint(c, line, pos) ==
    IF ~c.with_hints THEN NoHint
    ELSE hint_prefix(c.trie, line, pos, whitespace_before(line),
                     Slice(line, whitespace_before(line), pos))

\* shell.rs split_args, the one completion.rs imports: the trimmed line,
\* split at every whitespace char, from char i of the line t on; w is the
\* word that char i continues.
RECURSIVE split_at_whitespace(_, _, _)
split_at_whitespace(t, i, w) ==
    IF i > Len(t) THEN <<w>>
    ELSE IF char_is_whitespace(t[i]) THEN <<w>> \o split_at_whitespace(t, i + 1, <<>>)
    ELSE split_at_whitespace(t, i + 1, Append(w, t[i]))

shell_split_args(line) == split_at_whitespace(trim(line), 1, <<>>)

NoCompletion == [start |-> 0, candidates |-> {}]

\* Completion::complete_command: candidates for the first word while the
\* line has no second one; none (None) otherwise.
complete_command(c, line, args) ==
    IF Len(args) < 2
    THEN [some |-> TRUE,
          completion |-> [start |-> whitespace_before(line),
                          candidates |-> completion_candidates(c.trie, args[1])]]
    ELSE [some |-> FALSE, completion |-> NoCompletion]

\* Mutant: the flag of the hints is the one that is tested.
complete_TestsHints(c, line) ==
    IF ~c.with_hints THEN NoCompletion
    ELSE IF complete_command(c, line, shell_split_args(line)).some
    THEN complete_command(c, line, shell_split_args(line)).completion
    ELSE NoCompletion

\* Completion::complete, with no filename completer (the default): the
\* start of the text to replace, and the candidates.
complete(c, line) ==
    IF ~c.with_completion THEN NoCompletion
    ELSE IF complete_command(c, line, shell_split_args(line)).some
    THEN complete_command(c, line, shell_split_args(line)).completion
    ELSE NoCompletion

\* The helper build gives the editor.
helper(r, with_hints, with_completion) ==
    [trie |-> r.trie, with_hints |-> with_hints, with_completion |-> with_completion]

\* rustyline::config::Config, two of its settings.
Config(output_stream, completion_type) ==
    [output_stream |-> output_stream, completion_type |-> completion_type]

\* ReplBuilder::default, the field editor_config.
default_editor_config == Config("Stderr", "List")

\* The configurations a caller may pass to ReplBuilder::editor_config: the
\* one the builder starts with, the default of rustyline, and another.
EditorConfigs ==
    {default_editor_config, Config("Stdout", "Circular"), Config("Stderr", "Circular")}

\* ReplBuilder::build, the editor: Editor::with_config on a Config that
\* build makes itself; editor_config is the field of the builder.
build_editor(editor_config) == [config |-> Config("Stderr", "List")]

\* The names registered when a hint is asked for.
nbsp_x_name == <<"nbsp", "x">>
e_acute_x_name == <<"e_acute", "x">>
HintNames == {hi_name, add_name, nbsp_x_name, e_acute_x_name}

\* A builder to which the names of S were added.
HintBuilder(S) ==
    [commands |-> [i \in 1..Cardinality(S) |->
                     [name |-> (CHOOSE v \in Orderings(S) : TRUE)[i],
                      cmd  |-> CommandFor((CHOOSE v \in Orderings(S) : TRUE)[i])]],
     predict_commands |-> TRUE]

\* The lines under edition: a part of a name, a name, a name and more, after
\* whitespace of one byte or of two, or nothing but whitespace.
HintLines ==
    {w \o t : w \in {<<>>, <<"sp">>, <<"sp", "sp">>, <<"nbsp">>, <<"nbsp", "nbsp">>},
              t \in {<<>>, <<"h">>, <<"h", "i">>, <<"h", "e">>, help_name, <<"a">>, add_name,
                     <<"a", "d", "d", "sp", "1">>, <<"q">>, <<"x">>, <<"b">>,
                     <<"e_acute">>}}

\* A Repl was built from at most MaxHinted commands, with hints or without,
\* with completion or without, with the editor_config the builder started
\* with or one that was passed to it.
HintInit ==
    /\ builder = NoBuilder
    /\ pc = "built"
    /\ build_result = [tag |-> "Ok", error |-> NoBuilderError]
    /\ \E S \in {T \in SUBSET HintNames : Cardinality(T) <= MaxHinted} :
          repl = Built(HintBuilder(S), build(HintBuilder(S)))
    /\ read = NoRead
    /\ cands = <<>>
    /\ out = <<>>
    /\ writes = NoWrites
    /\ dispatched = <<>>
    /\ invoked = <<>>
    /\ history = <<>>
    /\ status = NoStep
    /\ run_result = NoResult
    /\ call = NoCall
    /\ nest = <<>>
    /\ message = <<>>
    /\ \E w, v \in BOOLEAN, cfg \in EditorConfigs :
          edit = [NoEdit EXCEPT !.with_hints = w, !.with_completion = v,
                                !.editor_config = cfg,
                                !.config = build_editor(cfg).config]
    /\ captured = NoCaptured

\* The user edits the line: the editor has a line and its cursor somewhere
\* in it, between two chars.
Editor_edit(line, pos) ==
    /\ pc = "built"
    /\ edit.pc = "none"
    /\ is_char_boundary(line, pos)
    /\ edit' = [edit EXCEPT !.pc = "editing", !.line = line, !.pos = pos]
    /\ UNCHANGED <<builder, pc, build_result, repl, read, cands, out, writes, dispatched,
                   invoked, history, status, run_result, call, nest, message, captured>>

\* The editor asks its hinter for the hint of the line.
Completion_hint ==
    /\ edit.pc = "editing"
    /\ edit' = [edit EXCEPT !.pc = "hinted",
                            !.hint = hint(helper(repl, edit.with_hints, edit.with_completion),
                                          edit.line, edit.pos)]
    /\ UNCHANGED <<builder, pc, build_result, repl, read, cands, out, writes, dispatched,
                   invoked, history, status, run_result, call, nest, message, captured>>

\* The editor asks its completer for the completions of the line.
Completion_complete ==
    /\ edit.pc = "editing"
    /\ edit' = [edit EXCEPT !.pc = "completed",
                            !.completion =
                               complete(helper(repl, edit.with_hints, edit.with_completion),
                                        edit.line)]
    /\ UNCHANGED <<builder, pc, build_result, repl, read, cands, out, writes, dispatched,
                   invoked, history, status, run_result, call, nest, message, captured>>

\* The line is submitted: readline returns it and next handles it (the
\* handler it may run returns Ok(Done), and every write succeeds).
Editor_submit ==
    /\ edit.pc = "editing"
    /\ \E c \in Orderings(Lookup(repl, [kind |-> "Line", line |-> edit.line])) :
          edit' = [edit EXCEPT !.pc = "submitted",
                               !.dispatched =
                                  next_match(repl, [kind |-> "Line", line |-> edit.line],
                                             c, Ok("Done"), {}).step.dispatched]
    /\ UNCHANGED <<builder, pc, build_result, repl, read, cands, out, writes, dispatched,
                   invoked, history, status, run_result, call, nest, message, captured>>

HintNext ==
    \/ \E line \in HintLines : \E pos \in 0..str_len(line) : Editor_edit(line, pos)
    \/ Completion_hint
    \/ Completion_complete
    \/ Editor_submit

HintSpec == HintInit /\ [][HintNext]_vars

\* ------------------------------------------------------------------ captured state

\* Most commands the closures record before the line source runs dry.
MaxApplied == 2

\* A Repl whose handlers share a state they capture, as in
\* examples/shared_mut_state.rs: `add` of two i32 and `hi` of a String.
SharedBuilder(p) ==
    [commands |-> <<[name |-> add_name, cmd |-> CommandFor(add_name)],
                    [name |-> hi_name, cmd |-> CommandFor(hi_name)]>>,
     predict_commands |-> p]

\* What the closures of the handlers run in a step do to the state they
\* capture: each one that is called records its command and its arguments.
closure_calls(state, inv) ==
    state \o [i \in 1..Len(SelectSeq(inv, LAMBDA e : e.ran)) |->
                [name |-> SelectSeq(inv, LAMBDA e : e.ran)[i].name,
                 args |-> SelectSeq(inv, LAMBDA e : e.ran)[i].args]]

\* The names of Repl r that start with the token t.
StartingWith(r, t) ==
    {n \in DOMAIN r.commands \cup {help_name, quit_name} : t # <<>> /\ StartsWith(n, t)}

\* The tokens w are a valid use of a command of r: the first resolves to one
\* registered name (alone in starting with it and, without prefix execution,
\* equal to it), and the others are as many as the command declares and
\* parse as the declared types.
ValidUse(r, w) ==
    /\ w # <<>>
    /\ Cardinality(StartingWith(r, w[1])) = 1
    /\ \A n \in StartingWith(r, w[1]) :
          /\ n \in DOMAIN r.commands
          /\ r.predict_commands \/ n = w[1]
          /\ Len(w) - 1 = Len(r.commands[n].types)
          /\ \A k \in 1..(Len(w) - 1) : Parses(r.commands[n].types[k], w[k + 1])

\* What readline returned is a line that validly uses a command of r.
ValidLine(r, rd) ==
    /\ rd.kind = "Line"
    /\ ~IsBlank(rd.line)
    /\ split_args(rd.line).ok
    /\ ValidUse(r, split_args(rd.line).words)

\* The command a valid line uses, and its arguments.
UseOf(r, w) ==
    [name |-> CHOOSE n \in StartingWith(r, w[1]) : TRUE, args |-> Tail(w)]

\* main has built the Repl and called run.
SharedInit ==
    /\ builder = NoBuilder
    /\ pc = "awaiting"
    /\ build_result = [tag |-> "Ok", error |-> NoBuilderError]
    /\ \E p \in BOOLEAN : repl = Built(SharedBuilder(p), build(SharedBuilder(p)))
    /\ read = NoRead
    /\ cands = <<>>
    /\ out = <<>>
    /\ writes = NoWrites
    /\ dispatched = <<>>
    /\ invoked = <<>>
    /\ history = <<>>
    /\ status = NoStep
    /\ run_result = Ok("-")
    /\ call = NoCall
    /\ nest = <<>>
    /\ message = <<>>
    /\ edit = NoEdit
    /\ captured = NoCaptured

\* Repl::next, first half, while the line source has lines.
shared_readline(rd) ==
    /\ Len(captured.applied) < MaxApplied
    /\ readline(rd)

\* Repl::next, second half, with what the closure called in it does to the
\* state it captures.
shared_next ==
    /\ pc = "handling"
    /\ \E c \in Orderings(Lookup(repl, read)), res \in ClosureResults, wf \in WriteFailures :
         \E n \in {next_match(repl, read, c, res, wf)} :
            /\ cands' = c
            /\ out' = n.step.io.out
            /\ writes' = [attempted |-> n.step.io.n, failed |-> n.step.io.failed]
            /\ dispatched' = n.step.dispatched
            /\ invoked' = n.step.invoked
            /\ history' = n.hist
            /\ status' = [ret |-> n.step.ret, err |-> n.step.err]
            /\ pc' = run_loop(n.step).pc
            /\ run_result' = run_loop(n.step).result
            /\ captured' =
                 [state   |-> closure_calls(captured.state, n.step.invoked),
                  applied |-> IF ValidLine(repl, read)
                              THEN Append(captured.applied,
                                          UseOf(repl, split_args(read.line).words))
                              ELSE captured.applied]
    /\ UNCHANGED <<builder, build_result, repl, read, call, nest, message, edit>>

SharedNext ==
    \/ \E rd \in ReadResults : shared_readline(rd)
    \/ shared_next

SharedSpec == SharedInit /\ [][SharedNext]_vars

\* ------------------------------------------------------------------ the loop, with handlers that return

\* The loop of run on the Repl above, with a line source that never runs
\* dry.
LiveNext ==
    \/ \E rd \in ReadResults : readline(rd)
    \/ next

\* Every call of next returns: the handler it runs returns, and so does
\* every write.
LiveSpec == SharedInit /\ [][LiveNext]_vars /\ WF_vars(next)

\* ------------------------------------------------------------------ properties

\* A step of the loop has finished and the state shows what it did.
StepDone == pc \in {"awaiting", "returned"} /\ read.kind # "None"

\* The step passed its line to handle_line.
LineHandled == StepDone /\ read.kind = "Line" /\ ~IsBlank(read.line)

\* The line of the step was tokenized into at least one token.
Tokenized ==
    LineHandled /\ split_args(read.line).ok /\ split_args(read.line).words # <<>>

FirstToken == split_args(read.line).words[1]
RestTokens == Tail(split_args(read.line).words)

\* The names a Repl knows: its registered commands and the reserved ones.
KnownNames == DOMAIN repl.commands \cup Range(RESERVED)

\* The known names that start with the first token of the line.
Matching == {n \in KnownNames : StartsWith(n, FirstToken)}

\* v lists exactly the elements of S, each once, in ascending order.
AscendingListOf(v, S) ==
    /\ Range(v) = S
    /\ Len(v) = Cardinality(S)
    /\ \A i, j \in 1..Len(v) : i < j => StrLess(v[i], v[j])

\* A handler was run in the step and returned a critical error.
HandlerCritical ==
    StepDone /\ invoked # <<>> /\ invoked[1].result.tag = "Err"
             /\ invoked[1].result.err = CriticalError

\* A handler was run in the step and returned an error that is not critical.
HandlerRecoverable ==
    StepDone /\ invoked # <<>> /\ invoked[1].result.tag = "Err"
             /\ invoked[1].result.err # CriticalError

Min(S) == CHOOSE x \in S : \A y \in S : x <= y

\* The step had exactly the writes `lines` to make, in this order, and made
\* them until one failed: with no failure all were written and the step
\* yields ret; otherwise what precedes the first failed write was written
\* and the step returns the I/O error, which ends run.
WritesThenYields(lines, ret) ==
    IF writes.failed = {}
    THEN /\ out = lines
         /\ status = [ret |-> ret, err |-> NoError]
    ELSE /\ out = SubSeq(lines, 1, Min(writes.failed) - 1)
         /\ status = [ret |-> "Err", err |-> IoError]
         /\ pc = "returned"
         /\ run_result = Err(IoError)

\* C1: a critical error of a handler is returned by the step unprinted (the
\* step writes nothing), run returns that error at once, and from then on
\* nothing happens any more: no line is read and no handler is run.
C1_CriticalStops ==
    /\ [](HandlerCritical =>
            /\ status = [ret |-> "Err", err |-> invoked[1].result.err]
            /\ out = <<>> /\ writes.attempted = 0
            /\ pc = "returned"
            /\ run_result = Err(invoked[1].result.err))
    /\ [][run_result.tag = "Err" => UNCHANGED vars]_vars

\* C1 witness: a critical error came out of a handler whose line resolved by
\* a strict prefix and whose two arguments passed validation.
C1_Witness ==
    /\ HandlerCritical
    /\ invoked[1].name = add_name /\ invoked[1].ran /\ Len(invoked[1].args) = 2
    /\ FirstToken # add_name
    /\ run_result.tag = "Err"

\* C2 as stated: the step returns an error only if a handler returned a
\* critical error.
C2_OnlyCriticalEscapes == status.ret = "Err" => HandlerCritical

\* C2 amended: the step, and run, return an error only if a handler returned
\* a critical error (and that error is returned) or a write to the output
\* stream failed (and the I/O error is returned); tokenization, resolution,
\* argument, line-source and other handler errors alone never escape.
C2_CriticalOrWriteEscapes ==
    /\ status.ret = "Err" =>
         \/ HandlerCritical /\ status.err = invoked[1].result.err /\ writes.failed = {}
         \/ writes.failed # {} /\ status.err = IoError
    /\ run_result.tag = "Err" => status.ret = "Err" /\ run_result.err = status.err
    /\ (StepDone /\ writes.failed = {} /\ ~HandlerCritical)
         => status.ret \in {"Continue", "Break", "Panic"}

\* C2 witness: an error that is not a handler's escaped the loop: the write
\* of a "Command not found" diagnostic failed and run returned the I/O error.
C2_Witness ==
    /\ Tokenized /\ dispatched = <<>> /\ writes.failed # {}
    /\ status = [ret |-> "Err", err |-> IoError]
    /\ run_result = Err(IoError)

\* C3 as stated: after a handler error that is not critical the loop has
\* printed `Error: <cause>`, the step yields Continue and the loop goes on
\* to read.
C3_RecoverablePrintedAndContinue ==
    HandlerRecoverable =>
        /\ out # <<>> /\ out[1] = LineError(invoked[1].result.err)
        /\ status = [ret |-> "Continue", err |-> NoError]
        /\ pc = "awaiting"

\* C3 amended: after a handler error that is not critical the loop writes
\* `Error: <cause>` first; when no write of the step fails the step yields
\* Continue and the loop goes on to read, and when one fails the step returns
\* the I/O error and run ends with it.
C3_RecoverablePrintedUnlessWriteFails ==
    HandlerRecoverable =>
        /\ writes.attempted >= 1
        /\ 1 \notin writes.failed => out # <<>> /\ out[1] = LineError(invoked[1].result.err)
        /\ writes.failed = {} => /\ status = [ret |-> "Continue", err |-> NoError]
                                 /\ pc = "awaiting"
        /\ writes.failed # {} => /\ status = [ret |-> "Err", err |-> IoError]
                                 /\ pc = "returned"
                                 /\ run_result = Err(IoError)

\* C3 witness: the closure of a command failed with an ordinary error, it
\* was printed and the loop awaits the next line.
C3_Witness ==
    /\ HandlerRecoverable
    /\ invoked[1].ran /\ invoked[1].result = Err(HandlerError)
    /\ out = <<LineError(HandlerError)>>
    /\ pc = "awaiting"

\* The step called handle_command for this reserved name.
DispatchedReserved(n) == StepDone /\ dispatched # <<>> /\ dispatched[1].name = n

\* A handler was run in the step and returned this status.
HandlerReturned(st) == StepDone /\ invoked # <<>> /\ invoked[1].result = Ok(st)

Continues == status = [ret |-> "Continue", err |-> NoError] /\ pc = "awaiting"
Breaks ==
    /\ status = [ret |-> "Break", err |-> NoError]
    /\ pc = "returned"
    /\ run_result = Ok("Done")

\* C4 as stated: Done and `help` give Continue; Quit and `quit` give Break,
\* and run has then returned Ok(()).
C4_Classification ==
    /\ HandlerReturned("Done") => Continues
    /\ DispatchedReserved(help_name) => Continues
    /\ HandlerReturned("Quit") => Breaks
    /\ DispatchedReserved(quit_name) => Breaks

\* C4 amended: as stated, except that `help` gives Continue only when the
\* help text, or else the `Error:` line reporting the failed write of it,
\* can be written; when both writes fail the step returns the I/O error.
C4_ClassificationUnlessHelpWritesFail ==
    /\ [](/\ HandlerReturned("Done") => Continues
          /\ DispatchedReserved(help_name) =>
               /\ invoked = <<>>
               /\ IF 1 \notin writes.failed
                  THEN Continues /\ Len(out) = 1 /\ out[1].kind = "Help"
                  ELSE IF 2 \notin writes.failed
                  THEN Continues /\ out = <<LineError(IoError)>>
                  ELSE /\ status = [ret |-> "Err", err |-> IoError]
                       /\ out = <<>>
                       /\ run_result = Err(IoError)
          /\ HandlerReturned("Quit") => Breaks
          /\ DispatchedReserved(quit_name) => Breaks /\ invoked = <<>>)
    /\ [][status.ret = "Break" => UNCHANGED vars]_vars

\* C4 witness: a handler returned Quit and run returned Ok(()).
C4_Witness == HandlerReturned("Quit") /\ Breaks /\ out = <<>>

\* C5: with prefix execution enabled, when exactly one known name starts
\* with the first token, handle_command is called once, for that name and
\* the remaining tokens; and for a registered command the handler is run
\* once with those arguments.
C5_UniquePrefixDispatched ==
    (Tokenized /\ repl.predict_commands /\ Cardinality(Matching) = 1) =>
        LET n == CHOOSE m \in Matching : TRUE
        IN  /\ dispatched = <<[name |-> n, args |-> RestTokens]>>
            /\ n \in DOMAIN repl.commands =>
                 /\ Len(invoked) = 1
                 /\ invoked[1].name = n
                 /\ invoked[1].args = RestTokens

\* C5 witness: a strict prefix followed by two arguments ran the handler of
\* the one command it is a prefix of.
C5_Witness ==
    /\ Tokenized /\ repl.predict_commands /\ Cardinality(Matching) = 1
    /\ invoked # <<>> /\ invoked[1].name # FirstToken
    /\ Len(invoked[1].args) = 2 /\ invoked[1].ran

NoDispatch == dispatched = <<>> /\ invoked = <<>>

\* The three lines of the diagnostic for an ambiguous token.
AmbiguousLines ==
    <<LineNotFound(FirstToken),
      LineCandidates(CHOOSE v \in Orderings(Matching) : AscendingListOf(v, Matching)),
      LineUseHelp>>

\* C6 as stated: when two or more known names start with the first token,
\* nothing is dispatched, the step yields Continue and the Candidates block
\* lists the matching names, each once, in ascending order.
C6_Ambiguous ==
    (Tokenized /\ Cardinality(Matching) >= 2) =>
        /\ NoDispatch
        /\ Continues
        /\ out = AmbiguousLines

\* C6 amended: the same for a first token that is not empty, and with the
\* step yielding Continue unless a write of the diagnostic fails, in which
\* case what precedes the failed write was written and the step returns the
\* I/O error.
C6_AmbiguousNonEmptyToken ==
    (Tokenized /\ FirstToken # <<>> /\ Cardinality(Matching) >= 2) =>
        /\ NoDispatch
        /\ WritesThenYields(AmbiguousLines, "Continue")
        /\ writes.failed = {} => pc = "awaiting"

\* C6 witness: three names matched, the trie returned them out of order and
\* the diagnostic was written in full.
C6_Witness ==
    /\ Tokenized /\ FirstToken # <<>> /\ Cardinality(Matching) >= 3
    /\ Len(out) = 3 /\ out[2].kind = "Candidates"
    /\ cands # out[2].names
    /\ Continues

\* The one known name that starts with the first token.
TheMatch == CHOOSE m \in Matching : TRUE

\* The diagnostic for a rejected strict prefix: the single candidate listed.
RejectedLines ==
    <<LineNotFound(FirstToken), LineCandidates(<<TheMatch>>), LineUseHelp>>

\* C7 as stated: with prefix execution disabled, a strict prefix of exactly
\* one name is rejected (nothing dispatched, Continue, `Command not found`
\* with the one candidate listed), and a token equal to the one matching
\* name is dispatched.
C7_PrefixDisabled ==
    (Tokenized /\ ~repl.predict_commands /\ Cardinality(Matching) = 1) =>
        IF FirstToken # TheMatch
        THEN NoDispatch /\ Continues /\ out = RejectedLines
        ELSE dispatched = <<[name |-> TheMatch, args |-> RestTokens]>>

\* C7 amended: the same, with the rejected step yielding Continue unless a
\* write of the diagnostic fails, in which case what precedes the failed
\* write was written and the step returns the I/O error.
C7_PrefixDisabledUnlessWriteFails ==
    (Tokenized /\ ~repl.predict_commands /\ Cardinality(Matching) = 1) =>
        IF FirstToken # TheMatch
        THEN /\ NoDispatch
             /\ WritesThenYields(RejectedLines, "Continue")
             /\ writes.failed = {} => pc = "awaiting"
        ELSE dispatched = <<[name |-> TheMatch, args |-> RestTokens]>>

\* C7 witness: with prefix execution disabled a strict prefix of a registered
\* command was rejected with the full diagnostic.
C7_Witness ==
    /\ Tokenized /\ ~repl.predict_commands /\ Cardinality(Matching) = 1
    /\ FirstToken # TheMatch /\ TheMatch \in DOMAIN repl.commands
    /\ out = RejectedLines /\ Continues

\* C8 as stated, for the steps whose writes all succeed: when no known name
\* starts with the first token the diagnostic is `Command not found: <token>`
\* and the hint, with no Candidates block, nothing is dispatched and the step
\* yields Continue, whatever predict_commands is.
C8_NotFoundNoCandidates ==
    (Tokenized /\ Matching = {} /\ writes.failed = {}) =>
        /\ NoDispatch
        /\ Continues
        /\ out = <<LineNotFound(FirstToken), LineUseHelp>>

\* Prefixes the index is asked for: every prefix of every name a caller may
\* add, every first token, and texts that extend a name or match none.
Prefixes ==
    UNION {{SubSeq(n, 1, k) : k \in 0..Len(n)} : n \in Names}
    \cup FirstTokens
    \cup {<<"h", "e", "l", "p", "x">>, <<"h", "x">>, <<"sq">>, <<"a", "d", "d", "a">>}

\* C9: in a built Repl the index answers every non-empty prefix p with
\* exactly the known names that start with p, and the empty prefix with
\* nothing; the vector a step gets from it holds no name twice.
C9_IndexAnswersPrefix ==
    pc \notin {"builder", "build_failed"} =>
        /\ \A p \in Prefixes :
             completion_candidates(repl.trie, p) =
                 IF p = <<>> THEN {} ELSE {n \in KnownNames : StartsWith(n, p)}
        /\ Tokenized => /\ Len(cands) = Cardinality(Range(cands))
                        /\ Range(cands) = IF FirstToken = <<>> THEN {} ELSE Matching

\* C9 witness: a built Repl with two registered commands in which a strict
\* prefix is shared by a registered and a reserved name, and a step got
\* three candidates.
C9_Witness ==
    /\ Cardinality(DOMAIN repl.commands) = 2
    /\ completion_candidates(repl.trie, <<"h", "e">>) = {he_name, help_name}
    /\ Tokenized /\ Len(cands) = 3

\* build has returned and no session has started: `builder` holds what build
\* was called with.
BuildReturned == pc \in {"built", "build_failed"}

\* The names added to the builder, in order.
AddedNames == [i \in 1..Len(builder.commands) |-> builder.commands[i].name]

\* A name build accepts: not empty, exactly one shell word, not reserved.
AcceptableName(n) ==
    /\ n # <<>>
    /\ split_args(n).ok /\ Len(split_args(n).words) = 1
    /\ n # help_name /\ n # quit_name

Offending(i) ==
    \/ ~AcceptableName(AddedNames[i])
    \/ \E j \in 1..(i - 1) : AddedNames[j] = AddedNames[i]

\* The first entry that breaks a rule (there is one).
FirstOffending == Min({i \in 1..Len(AddedNames) : Offending(i)})

\* build has returned an error and left no Repl behind: nothing can be run.
BuildFailed ==
    /\ pc = "build_failed" /\ build_result.tag = "Err"
    /\ repl.commands = NoCommands /\ repl.trie = TrieBuilder_new
    /\ read = NoRead /\ status = NoStep /\ run_result.tag = "None"
    /\ ~ENABLED Next

ReservedAdded == {i \in 1..Len(AddedNames) : AddedNames[i] \in {help_name, quit_name}}

\* C11 as stated: whenever `help` or `quit` was added, build returns
\* ReservedName carrying an added reserved name.
C11_ReservedRejected ==
    (BuildReturned /\ ReservedAdded # {}) =>
        /\ BuildFailed
        /\ build_result.error.type = "ReservedName"
        /\ \E i \in ReservedAdded : build_result.error.name = AddedNames[i]

\* C11 amended: whenever `help` or `quit` was added, build fails and no Repl
\* exists, so that no session can run; the error is ReservedName carrying
\* that name when the reserved entry is the first entry that breaks a rule,
\* and otherwise it is not about the reserved entry at all but about an
\* earlier one.
C11_ReservedRejectedUnlessEarlierError ==
    (BuildReturned /\ ReservedAdded # {}) =>
        /\ BuildFailed
        /\ FirstOffending \in ReservedAdded =>
              build_result.error = BuilderError("ReservedName", AddedNames[FirstOffending])
        /\ FirstOffending \notin ReservedAdded =>
              /\ build_result.error.type \in {"InvalidName", "DuplicateCommands"}
              /\ build_result.error.name = AddedNames[FirstOffending]
              /\ FirstOffending < Min(ReservedAdded)

\* C11 witness: `quit` added after an accepted command, and build returned
\* ReservedName(quit).
C11_Witness ==
    /\ BuildFailed
    /\ Len(AddedNames) >= 2 /\ AddedNames[1] = hi_name /\ AddedNames[2] = quit_name
    /\ build_result.error = BuilderError("ReservedName", quit_name)

\* Pairs of entries added under one acceptable name.
DuplicatePairs ==
    {p \in (1..Len(AddedNames)) \X (1..Len(AddedNames)) :
        /\ p[1] < p[2] /\ AddedNames[p[1]] = AddedNames[p[2]]
        /\ AcceptableName(AddedNames[p[1]])}

InvalidName(n) ==
    \/ n = <<>>
    \/ ~split_args(n).ok
    \/ Len(split_args(n).words) # 1

InvalidAdded == {i \in 1..Len(AddedNames) : InvalidName(AddedNames[i])}

\* C13 as stated: whenever an invalid name was added, build returns
\* InvalidName carrying an added invalid name.
C13_InvalidRejected ==
    (BuildReturned /\ InvalidAdded # {}) =>
        /\ BuildFailed
        /\ build_result.error.type = "InvalidName"
        /\ \E i \in InvalidAdded : build_result.error.name = AddedNames[i]

\* C13 amended: whenever an invalid name was added, build fails and no Repl
\* exists; the error is InvalidName carrying the first invalid name added,
\* unless an entry added before it is reserved or a duplicate, whose error
\* is returned instead.
C13_InvalidRejectedUnlessEarlierError ==
    (BuildReturned /\ InvalidAdded # {}) =>
        /\ BuildFailed
        /\ FirstOffending <= Min(InvalidAdded)
        /\ FirstOffending = Min(InvalidAdded) =>
              build_result.error = BuilderError("InvalidName", AddedNames[FirstOffending])
        /\ FirstOffending < Min(InvalidAdded) =>
              /\ build_result.error.type \in {"ReservedName", "DuplicateCommands"}
              /\ build_result.error.name = AddedNames[FirstOffending]

\* C13 witness: a name that cannot be tokenized (an unbalanced quote) was
\* added after two other commands, and build returned InvalidName for it.
C13_Witness ==
    /\ BuildFailed
    /\ Len(AddedNames) = 3 /\ AddedNames[3] = <<"sq", "a">>
    /\ ~split_args(AddedNames[3]).ok
    /\ build_result.error = BuilderError("InvalidName", <<"sq", "a">>)

\* ------------------------------------------------------------------ validation

\* The generated handler has gone past the check of the number of arguments.
ArityChecked == call.pc \in {"parsing", "validated", "returned"}

\* The validator of the generated handler has returned.
Validated == call.validation # "-"

\* The positions whose argument does not parse as the type declared there
\* (defined when as many arguments as types were given).
FailingPositions ==
    {k \in 1..Len(call.types) : ~Parses(call.types[k], call.args[k])}

\* The positions 1..n in order.
UpTo(n) == [k \in 1..n |-> k]

\* C14: the number of arguments is checked before any argument is parsed:
\* nothing is parsed before the check, and when the number differs from the
\* number of types the handler returns WrongNumberOfArguments with got the
\* number supplied and expected the number of types, no argument has been
\* parsed, and the closure is not called, also when an argument would fail
\* to parse.
C14_ArityFirst ==
    /\ ~ArityChecked => call.parsed = <<>>
    /\ (ArityChecked /\ Len(call.args) # Len(call.types)) =>
          /\ call.pc = "returned"
          /\ call.result = Err(WrongNumberOfArguments(Len(call.args), Len(call.types)))
          /\ call.result.err.type # "WrongArgumentValue"
          /\ call.parsed = <<>>
          /\ call.closure = <<>>
    /\ call.parsed # <<>> => Len(call.args) = Len(call.types)

\* C14 witness: two i32 declared and a single argument given that is not a
\* number: the call was rejected for the number of arguments.
C14_Witness ==
    /\ call.pc = "returned"
    /\ call.types = <<"i32", "i32">> /\ call.args = << <<"x">> >>
    /\ call.result = Err(WrongNumberOfArguments(1, 2))

\* C15: with as many arguments as types, the arguments are parsed in
\* position order, and validation stops at the first one that fails: the
\* WrongArgumentValue returned carries the text and the parse error of the
\* argument at the lowest failing position, that position is the last one
\* parsed, and the closure is not called.
C15_FirstFailureReported ==
    (ArityChecked /\ Len(call.args) = Len(call.types)) =>
        /\ \E n \in 0..Len(call.types) : call.parsed = UpTo(n)
        /\ \A k \in 1..Len(call.parsed) :
              k < Len(call.parsed) => Parses(call.types[k], call.args[k])
        /\ (Validated /\ FailingPositions # {}) =>
              LET i == Min(FailingPositions)
              IN  /\ call.pc = "returned"
                  /\ call.result = Err(WrongArgumentValue(call.args[i],
                                         ParseErr(call.types[i], call.args[i])))
                  /\ call.parsed = UpTo(i)
                  /\ call.closure = <<>>
        /\ (Validated /\ FailingPositions = {}) =>
              /\ call.parsed = UpTo(Len(call.types))
              /\ call.validation = "Ok"

\* C15 witness: two i32 declared and two arguments given that both fail to
\* parse, the empty text and a word: the first was reported with its own
\* parse error, and the second was not parsed.
C15_Witness ==
    /\ call.pc = "returned"
    /\ call.types = <<"i32", "i32">> /\ call.args = << <<>>, <<"x">> >>
    /\ call.result = Err(WrongArgumentValue(<<>>, "Empty"))
    /\ call.parsed = <<1>>

\* Every declared type is String.
OnlyStrings == \A k \in 1..Len(call.types) : call.types[k] = "String"

\* C16: the validator accepts the arguments exactly when there are as many
\* as declared types and each parses as the type declared at its position;
\* a value error is never about a String position, so that with only String
\* declared the validator rejects exactly the lists of another length, with
\* WrongNumberOfArguments.  What the validator returns is what the operator
\* `validator` computes.
C16_AcceptsIffWellTyped ==
    Validated =>
        /\ call.validation = "Ok" <=>
              /\ Len(call.args) = Len(call.types)
              /\ \A k \in 1..Len(call.types) : Parses(call.types[k], call.args[k])
        /\ (call.validation = "Err" /\ call.result.err.type = "WrongArgumentValue") =>
              call.types[call.parsed[Len(call.parsed)]] # "String"
        /\ OnlyStrings =>
              /\ call.validation = "Ok" <=> Len(call.args) = Len(call.types)
              /\ call.validation = "Err" =>
                    call.result.err.type = "WrongNumberOfArguments"
        /\ call.validation = "Ok" <=> validator(call.types, call.args).tag = "Ok"
        /\ call.validation = "Err" => call.result = validator(call.types, call.args)

\* C16 witness: String and i32 declared; the validator accepted the empty
\* text for the String and a two-digit number for the i32.
C16_Witness ==
    /\ call.pc = "validated" /\ call.validation = "Ok"
    /\ call.types = <<"String", "i32">>
    /\ call.args = << <<>>, <<"1", "2">> >>

\* The values the closure is to be called with: the parse of each argument
\* as the type declared at its position.
ParsedValues == [k \in 1..Len(call.types) |-> ParseValue(call.types[k], call.args[k])]

\* C17: the closure of a generated handler is called only after the
\* validator has accepted the arguments and never after it has rejected
\* them; once the handler has returned after an accepted validation, the
\* closure has been called exactly once, with the parsed values in the order
\* of declaration, no unwrap has panicked, and the handler returned what
\* the closure returned.  The handler agrees with the operator `handler`.
C17_ClosureAfterValidation ==
    /\ call.closure # <<>> => call.validation = "Ok" /\ call.pc = "returned"
    /\ call.validation = "Err" => call.closure = <<>> /\ call.pc = "returned"
    /\ Len(call.closure) <= 1
    /\ (call.pc = "returned" /\ call.validation = "Ok") =>
          /\ call.closure = <<ParsedValues>>
          /\ call.result \in ClosureResults
    /\ call.result.tag # "Panic"
    /\ call.pc = "returned" =>
          LET h == handler([types |-> call.types], call.args, call.result)
          IN  /\ h.ran = (call.closure # <<>>)
              /\ h.result = call.result

\* C17 witness: String and i32 declared, a word and a number given: the
\* closure was called with the word and the number 12, in this order.
C17_Witness ==
    /\ call.pc = "returned" /\ call.validation = "Ok"
    /\ call.types = <<"String", "i32">>
    /\ call.args = << <<"x">>, <<"1", "2">> >>
    /\ Len(call.closure) = 1
    /\ call.closure[1][1].text = <<"x">> /\ call.closure[1][2].number = 12

\* ------------------------------------------------------------------ usage line

\* A command was run in the step and returned an ArgsError (from its
\* validator or from its closure).
ReturnedArgsError ==
    /\ StepDone /\ invoked # <<>> /\ invoked[1].result.tag = "Err"
    /\ invoked[1].result.err.type \in {"WrongNumberOfArguments", "WrongArgumentValue"}

\* The two lines that report the ArgsError of the command run in the step:
\* the error, and the usage with the full name and the args_info of the
\* command registered under it.
ArgsErrorLines ==
    <<LineError(invoked[1].result.err),
      LineUsage(invoked[1].name, repl.commands[invoked[1].name].args_info)>>

\* The command run in the step is the one the first token resolves to.
RanResolved ==
    /\ Tokenized /\ invoked[1].name \in DOMAIN repl.commands
    /\ StartsWith(invoked[1].name, FirstToken)
    /\ dispatched = <<[name |-> invoked[1].name, args |-> RestTokens]>>

HasUsageLine == \E k \in 1..Len(out) : out[k].kind = "Usage"

\* C18 as stated: an ArgsError of a command is printed as the Error line
\* followed by the Usage line of the resolved command, and the step yields
\* Continue; an error that is not an ArgsError gets no Usage line.
C18_ArgsErrorUsage ==
    /\ ReturnedArgsError =>
          /\ RanResolved
          /\ out = ArgsErrorLines
          /\ Continues
    /\ (StepDone /\ ~ReturnedArgsError) => ~HasUsageLine

\* C18 amended: for an ArgsError of a command the loop writes the Error
\* line and then the Usage line with the full name of the resolved command
\* and its args_info, and the step yields Continue, unless one of the two
\* writes fails: then what precedes the failed write is written, and the
\* step and run return the I/O error.  A step without an ArgsError of a
\* command writes no Usage line; a recoverable error that is not an
\* ArgsError is followed by no second write.
C18_ArgsErrorUsageUnlessWriteFails ==
    /\ ReturnedArgsError =>
          /\ RanResolved
          /\ WritesThenYields(ArgsErrorLines, "Continue")
          /\ writes.failed = {} => pc = "awaiting"
    /\ (StepDone /\ ~ReturnedArgsError) => ~HasUsageLine
    /\ (HandlerRecoverable /\ ~ReturnedArgsError) =>
          WritesThenYields(<<LineError(invoked[1].result.err)>>, "Continue")

\* C18 witness: `a 1 x` typed where `a` resolves to add(X:i32, Y:i32): the
\* value error and `Usage: add X:i32 Y:i32` were printed.
C18_Witness ==
    /\ ReturnedArgsError /\ Continues
    /\ FirstToken = <<"a">> /\ invoked[1].name = add_name
    /\ invoked[1].result.err = WrongArgumentValue(<<"x">>, "InvalidDigit")
    /\ out = ArgsErrorLines
    /\ out[2].sig = <<[name |-> "X", type |-> "i32"], [name |-> "Y", type |-> "i32"]>>

\* ------------------------------------------------------------------ interrupt, end of input, blank lines

\* The step that has finished got this from the line source.
StepRead(kind) == StepDone /\ read.kind = kind

\* C19 as stated: an interrupt prints CTRL-C, end of input prints nothing,
\* and in both cases the step yields Break, run returns Ok(()) and no
\* handler is invoked.
C19_InterruptAndEofBreak ==
    /\ StepRead("Interrupted") => out = <<LineCtrlC>> /\ Breaks /\ NoDispatch
    /\ StepRead("Eof") => out = <<>> /\ Breaks /\ NoDispatch

\* C19 amended: on an interrupt the loop writes CTRL-C; when the write
\* succeeds the step yields Break and run returns Ok(()), and when it fails
\* nothing is printed and the step and run return the I/O error.  End of
\* input yields Break without any write, and run returns Ok(()).  In both
\* cases no handler is invoked and nothing is added to the history.
C19_InterruptBreaksUnlessWriteFails ==
    /\ StepRead("Interrupted") =>
          /\ NoDispatch /\ history = <<>>
          /\ writes.attempted = 1
          /\ WritesThenYields(<<LineCtrlC>>, "Break")
          /\ writes.failed = {} => Breaks
    /\ StepRead("Eof") =>
          /\ NoDispatch /\ history = <<>>
          /\ out = <<>> /\ writes.attempted = 0
          /\ Breaks

\* C19 witness: in a Repl with a registered command an interrupt came,
\* CTRL-C was printed and run returned Ok(()).
C19_Witness ==
    /\ StepRead("Interrupted") /\ out = <<LineCtrlC>> /\ Breaks
    /\ DOMAIN repl.commands # {}

\* The step got a line that is empty or holds white space only.
BlankLineRead ==
    /\ StepRead("Line")
    /\ \A k \in 1..Len(read.line) : read.line[k] \in {"sp", "nl"}

\* C20: an empty or whitespace-only line yields Continue directly: no
\* candidates are looked up, no command is dispatched and no handler
\* invoked, no write is attempted, nothing is added to the history, and the
\* loop goes on to read the next line.
C20_BlankLineSkipped ==
    BlankLineRead =>
        /\ Continues
        /\ cands = <<>>
        /\ NoDispatch
        /\ out = <<>> /\ writes.attempted = 0
        /\ history = <<>>
        /\ run_result = Ok("-")

\* C20 witness: a line of one space was read in a Repl with a registered
\* command; the loop awaits the next line.
C20_Witness ==
    /\ BlankLineRead /\ read.line = <<"sp">>
    /\ pc = "awaiting" /\ DOMAIN repl.commands # {}

\* ------------------------------------------------------------------ C21

\* The step passed handle_line a line that shell_words::split refuses.
UntokenizableLine == LineHandled /\ ~split_args(read.line).ok

\* C21 as stated: a line that fails tokenization is reported as
\* `Error: <cause>`, nothing is looked up, no handler is invoked, and the
\* step yields Continue.
C21_ParseErrorReported ==
    UntokenizableLine =>
        /\ out = <<LineError(ParseError)>>
        /\ cands = <<>>
        /\ NoDispatch
        /\ Continues

\* C21 amended: a line that fails tokenization makes the step write the one
\* line `Error: <cause>`; when the write succeeds the step yields Continue,
\* when it fails nothing is printed and the step and run return the I/O
\* error.  Either way nothing is looked up and no handler is invoked.
C21_ParseErrorReportedUnlessWriteFails ==
    UntokenizableLine =>
        /\ WritesThenYields(<<LineError(ParseError)>>, "Continue")
        /\ writes.attempted = 1
        /\ cands = <<>>
        /\ NoDispatch

\* A line with an unbalanced quote was reported and the loop goes on.
C21_Witness ==
    /\ UntokenizableLine
    /\ read.line = <<"sq", "a">>
    /\ out = <<LineError(ParseError)>>
    /\ Continues

\* ------------------------------------------------------------------ C22

\* A Repl exists (build has returned it).
ReplBuilt == pc \in {"built", "awaiting", "handling", "returned"}

\* C22: once a Repl is built, no step changes the registry: the set of
\* registered names, the description and the signature of each command, and
\* what the prefix index answers for every prefix stay as they are, whatever
\* the step was (run, a line read, a command run, an error of any kind).
C22_RegistryImmutable ==
    [][ReplBuilt =>
          /\ DOMAIN repl'.commands = DOMAIN repl.commands
          /\ \A n \in DOMAIN repl.commands :
               /\ repl'.commands[n].description = repl.commands[n].description
               /\ repl'.commands[n].args_info = repl.commands[n].args_info
          /\ \A p \in Prefixes :
               completion_candidates(repl'.trie, p) = completion_candidates(repl.trie, p)
          /\ repl'.predict_commands = repl.predict_commands]_vars

\* A Repl with two registered commands has run the handler of one of them,
\* its closure was called, and the loop goes on.
C22_Witness ==
    /\ pc = "awaiting"
    /\ Cardinality(DOMAIN repl.commands) = 2
    /\ invoked # <<>>
    /\ invoked[1].ran
    /\ invoked[1].name \in DOMAIN repl.commands

\* ------------------------------------------------------------------ C23

\* The step of session f is over, and in it a handler was run whose closure
\* was called and returned res.
ClosureReturned(f, res) ==
    /\ f.pc \in {"awaiting", "returned"}
    /\ f.read.kind = "Line"
    /\ f.invoked # <<>>
    /\ f.invoked[1].ran
    /\ f.invoked[1].result = res

\* The run of session f has returned the critical error, and the step that
\* got it printed nothing.
EndedByCritical(f) ==
    /\ f.pc = "returned"
    /\ f.status = [ret |-> "Err", err |-> CriticalError]
    /\ f.run_result = Err(CriticalError)
    /\ f.out = <<>>

\* C23: in sessions run one inside another, a critical error raised by a
\* handler ends the session of that handler, whose run returns the error;
\* and a session whose handler ran a session that returned a critical error
\* and returns that error as its own result ends in the same way, at every
\* depth: the error is not printed and run returns it.
C23_FatalEndsEverySession ==
    \A k \in 1..Len(nest) :
        /\ (ClosureReturned(nest[k], Err(CriticalError)) /\ nest[k].nested = NoResult)
               => EndedByCritical(nest[k])
        /\ (nest[k].nested = Err(CriticalError)
              /\ ClosureReturned(nest[k], nest[k].nested))
               => EndedByCritical(nest[k])

\* The outermost session has ended with a critical error that was raised
\* two sessions further in and returned by the handlers in between.
C23_Witness ==
    /\ Len(nest) = 1
    /\ nest[1].nested = Err(CriticalError)
    /\ ClosureReturned(nest[1], nest[1].nested)
    /\ EndedByCritical(nest[1])
    /\ nest[1].origin = 3

\* ------------------------------------------------------------------ C24

\* Repl::help has returned its message.
HelpShown == message # <<>>

\* The registered names in ascending order, each once.
Listed ==
    CHOOSE v \in Orderings(DOMAIN repl.commands) :
        \A i, j \in 1..Len(v) : i < j => StrLess(v[i], v[j])

\* Where the line l stands in the message.
IndexOf(l) == CHOOSE k \in 1..Len(message) : message[k] = l

\* The line shows sig after an indent of two spaces, then spaces only, and
\* the description from the column after col on, and nothing else.
ShowsEntry(line, sig, desc, col) ==
    /\ Len(line) = col + Len(desc)
    /\ SubSeq(line, 1, 2 + Len(sig)) = <<"sp", "sp">> \o sig
    /\ \A k \in (3 + Len(sig))..col : line[k] = "sp"
    /\ SubSeq(line, col + 1, Len(line)) = desc

\* The message has the block of the registered commands, one line for each
\* in ascending order of name with its `name signature` and description,
\* then, after an empty line, the block of `help` and `quit`; the
\* descriptions start after column user_col in the first block and after
\* column other_col in the second.
HelpBlocks(user_col, other_col) ==
    /\ Cardinality({k \in 1..Len(message) : message[k] = HeaderAvailable}) = 1
    /\ Cardinality({k \in 1..Len(message) : message[k] = HeaderOther}) = 1
    /\ IndexOf(HeaderOther) =
           IndexOf(HeaderAvailable) + (IF Listed = <<>> THEN 1 ELSE Len(Listed)) + 2
    /\ message[IndexOf(HeaderOther) - 1] = <<>>
    /\ \A k \in 1..Len(Listed) :
           ShowsEntry(message[IndexOf(HeaderAvailable) + k], signature(repl, Listed[k]),
                      repl.commands[Listed[k]].description, user_col)
    /\ Len(message) = IndexOf(HeaderOther) + 2
    /\ ShowsEntry(message[IndexOf(HeaderOther) + 1], help_name,
                  RESERVED_entries[1].desc, other_col)
    /\ ShowsEntry(message[IndexOf(HeaderOther) + 2], quit_name,
                  RESERVED_entries[2].desc, other_col)

\* The longest `name signature` of the registered commands, in characters
\* and in bytes.
LongestChars == MaxOf({Len(signature(repl, n)) : n \in DOMAIN repl.commands} \cup {0})
LongestBytes == MaxOf({str_len(signature(repl, n)) : n \in DOMAIN repl.commands} \cup {0})

\* C24 as stated: the help text lists every registered command once, in
\* ascending order of name, with signature and description, then in a block
\* of its own `help` and `quit`; in each block every description starts at
\* the column given by the two-space indent, the longest `name signature`
\* of the block and a gutter of two spaces.
C24_HelpAligned ==
    HelpShown => HelpBlocks(2 + LongestChars + 2, 2 + Len(help_name) + 2)

\* What holds instead: the same, with the longest `name signature` measured
\* in bytes, so that the gutter is wider than two spaces when the longest
\* one holds a character of several bytes.
C24_HelpAlignedInBytes ==
    HelpShown => HelpBlocks(2 + LongestBytes + 2, 2 + Len(help_name) + 2)

\* ------------------------------------------------------------------ C25

\* The hinter has answered for the line under edition.
Hinted == edit.pc = "hinted"

\* The text typed after the leading whitespace of the line.
Typed == SubSeq(edit.line, whitespace_before(edit.line) + 1, Len(edit.line))

\* The registered and reserved names that start with the typed text.
TypedMatches ==
    {n \in DOMAIN repl.commands \cup {help_name, quit_name} : StartsWith(n, Typed)}

\* The hinter answered as hints are described: with a hint or with none; a
\* hint only for a cursor at the end of the line, a typed text that is not
\* empty and a single name that starts with it, and then the rest of this
\* name; none when two names or more start with the typed text.
HintAsDescribed ==
    /\ edit.hint.tag \in {"None", "Some"}
    /\ edit.hint.tag = "Some" =>
          /\ edit.pos = str_len(edit.line)
          /\ Typed # <<>>
          /\ Cardinality(TypedMatches) = 1
          /\ \A n \in TypedMatches : Typed \o edit.hint.text = n
    /\ Cardinality(TypedMatches) >= 2 => edit.hint.tag = "None"

\* C25: with hints enabled, a hint is shown only when the cursor is at the
\* end of the line, the text typed after the leading whitespace is not
\* empty and exactly one registered or reserved name starts with it; the hint
\* is the rest of that name; with two matching names or more there is no hint.
C25_HintOnlyForUniqueName == (Hinted /\ edit.with_hints) => HintAsDescribed

\* The same for the lines on which the count of the leading whitespace chars
\* is the byte index where the typed text starts, and a cursor that is not
\* inside the leading whitespace.
C25_HintOnlyForUniqueNameAfterAsciiBlank ==
    (/\ Hinted
     /\ edit.with_hints
     /\ whitespace_before(edit.line) <= edit.pos
     /\ \A k \in 1..whitespace_before(edit.line) : edit.line[k] # "nbsp")
    => HintAsDescribed

\* A hint was shown for a name one other name shares its first letter with.
C25_HintShown ==
    /\ Hinted
    /\ edit.line = <<"sp", "h", "i">>
    /\ edit.hint = SomeHint(<<>>)
    /\ hi_name \in DOMAIN repl.commands

\* ------------------------------------------------------------------ C26

\* Session k of the stack gets a line from readline in this step.
ReadsLine(k) ==
    /\ k <= Len(nest')
    /\ nest[k].pc # "handling"
    /\ nest'[k].pc = "handling"

\* The step of session f for the line it read before is over: the handler it
\* dispatched, if any, has returned and its result was classified as one that
\* continues the loop (or f has read no line yet).
StepOver(f) ==
    /\ f.pc = "awaiting"
    /\ f.read = NoRead \/ f.status.ret = "Continue"

\* Every name session f resolved its line to, dispatched and ran is a name
\* of its own registry.
OwnRegistry(f) ==
    /\ Range(f.cands) \subseteq DOMAIN f.repl.commands \cup {help_name, quit_name}
    /\ \A i \in 1..Len(f.dispatched) :
          f.dispatched[i].name \in DOMAIN f.repl.commands \cup {help_name, quit_name}
    /\ \A i \in 1..Len(f.invoked) : f.invoked[i].name \in DOMAIN f.repl.commands
    /\ (f.pc \in {"awaiting", "returned"} /\ f.read.kind = "Line" /\ f.cands = <<>>
        /\ split_args(f.read.line).ok /\ ~IsBlank(f.read.line))
       => f.dispatched = <<>>

\* C26: lines are processed one at a time. A session reads a line only when
\* it is the innermost one and the step for its previous line is over; a
\* session whose handler runs a nested session waits in that handler,
\* unchanged, until the nested run has returned; and every session resolves
\* and dispatches its lines against its own registry only.
C26_OneLineAtATime ==
    [][/\ \A k \in 1..Len(nest) :
             ReadsLine(k) => (k = Len(nest) /\ StepOver(nest[k]))
       /\ \A k \in 1..(Len(nest) - 1) :
             /\ nest[k].pc = "in_handler"
             /\ (k < Len(nest) - 1 \/ nest[Len(nest)].pc # "returned")
                   => (k <= Len(nest') /\ nest'[k] = nest[k])
       /\ \A k \in 1..Len(nest') : OwnRegistry(nest'[k])]_vars

\* A nested session has read `hi x`, which its own registry resolves, while
\* the outer session, which has no `hi`, waits in the handler of `new`; and
\* back in the outer session the same line is no command.
C26_Witness ==
    /\ Len(nest) = 2
    /\ nest[1].pc = "in_handler"
    /\ nest[2].pc = "awaiting"
    /\ nest[2].read.line = hi_name \o <<"sp", "x">>
    /\ nest[2].dispatched = <<[name |-> hi_name, args |-> << <<"x">> >>]>>
    /\ hi_name \notin DOMAIN nest[1].repl.commands

\* ------------------------------------------------------------------ C27

\* The step ended in the failed lookup of a name in the map of commands:
\* it panicked on a line that has a first token.
LookupFailed ==
    /\ LineHandled
    /\ status.ret = "Panic"
    /\ split_args(read.line).ok
    /\ split_args(read.line).words # <<>>

\* C27: in a built Repl the prefix index and the map of commands are in
\* sync: whatever the index returns is `help`, `quit` or a key of the map,
\* every key of the map is returned by the index for its own name, and so
\* the name a line resolves to is a reserved one or a key of the map: the
\* lookup of the dispatch and of the usage line never fails.
C27_IndexAndMapInSync ==
    ReplBuilt =>
        /\ \A p \in Prefixes : completion_candidates(repl.trie, p) \subseteq KnownNames
        /\ \A n \in DOMAIN repl.commands : n \in completion_candidates(repl.trie, n)
        /\ \A i \in 1..Len(dispatched) : dispatched[i].name \in KnownNames
        /\ ~LookupFailed

\* The prefix `a` selected the registered `add`, whose handler refused the
\* arguments: both lookups were made, and the usage line was written.
C27_Witness ==
    /\ LineHandled
    /\ read.line = <<"a">>
    /\ dispatched = <<[name |-> add_name, args |-> <<>>]>>
    /\ status.ret = "Continue"
    /\ Len(out) = 2

\* ------------------------------------------------------------------ C28

\* The line of the step is not blank, and it tokenizes to no token at all.
NoTokenLine ==
    /\ LineHandled
    /\ split_args(read.line).ok
    /\ split_args(read.line).words = <<>>

\* C28: every step of the loop ends in Continue, in Break or in an error
\* returned to the caller, whatever the line source returned; a line that is
\* not blank and has no token (it holds a `#` comment only) ends in one of
\* these too, with no handler invoked.
C28_EveryStepEnds ==
    StepDone =>
        /\ status.ret \in {"Continue", "Break", "Err"}
        /\ NoTokenLine => NoDispatch

\* The same for the lines that are blank or have a token, or do not tokenize.
C28_EveryStepEndsButNoTokenLine ==
    (StepDone /\ ~NoTokenLine) => status.ret \in {"Continue", "Break", "Err"}

\* A line with no token makes the step panic, with no handler invoked.
C28_NoTokenLinePanics ==
    NoTokenLine => (status.ret = "Panic" /\ run_result = Panic /\ NoDispatch)

\* ------------------------------------------------------------------ C29

\* The first token of the line is the full name of a command of the Repl,
\* registered or reserved.
FullNameTyped == Tokenized /\ FirstToken \in KnownNames

\* Another name of the Repl starts with the first token and is longer.
LongerNameKnown == \E n \in KnownNames : n # FirstToken /\ StartsWith(n, FirstToken)

\* C29: a line whose first token is the full name of a command of the built
\* Repl, registered or reserved, dispatches that command, with prefix
\* execution on or off and whatever other names are registered, those of
\* which the token is a strict prefix included.
C29_FullNameDispatches ==
    FullNameTyped => (dispatched # <<>> /\ dispatched[1].name = FirstToken)

\* The same when no other name of the Repl starts with the typed name.
C29_FullNameDispatchesUnlessLongerName ==
    (FullNameTyped /\ ~LongerNameKnown)
    => (dispatched # <<>> /\ dispatched[1].name = FirstToken)

\* A full name that a longer name starts with is reported as not found, with
\* both names as candidates, and nothing is dispatched.
C29_FullNameOfLongerNameNotFound ==
    (FullNameTyped /\ LongerNameKnown)
    => (NoDispatch /\ status.ret \in {"Continue", "Err"} /\ Len(cands) >= 2)

\* ------------------------------------------------------------------ C30

\* The line of the step resolved to a reserved command, and further tokens
\* follow its first one.
ReservedWithTokens ==
    /\ LineHandled
    /\ dispatched # <<>>
    /\ dispatched[1].name \in {help_name, quit_name}
    /\ dispatched[1].args # <<>>

\* What the step of a line holding the reserved name alone comes to, with
\* the same writes failing.
ReservedAlone(name) ==
    handle_returned(repl, name, <<>>,
                    handle_command(repl, name, <<>>, Ok("Done"), NoOutput, writes.failed),
                    writes.failed)

\* C30: the reserved commands skip the validation of arguments. A line that
\* resolves to `help` or `quit` does, whatever tokens follow the first, what
\* the reserved name alone does: `quit` breaks the loop and writes nothing,
\* `help` writes the help text; no handler is run, and neither the error of
\* a wrong number or value of arguments nor a usage line is written.
C30_ReservedSkipValidation ==
    ReservedWithTokens =>
        /\ invoked = <<>>
        /\ \A i \in 1..Len(out) :
              out[i].kind # "Usage" /\ ~(out[i].kind = "Error" /\ IsArgsError(out[i].err))
        /\ out = ReservedAlone(dispatched[1].name).io.out
        /\ status = [ret |-> ReservedAlone(dispatched[1].name).ret,
                     err |-> ReservedAlone(dispatched[1].name).err]
        /\ dispatched[1].name = quit_name => (Breaks /\ out = <<>>)
        /\ (dispatched[1].name = help_name /\ writes.failed = {})
              => (Continues /\ out = <<LineHelp(help(repl))>>)

\* The line `quit 1` broke the loop.
C30_Witness ==
    /\ ReservedWithTokens
    /\ read.line = quit_name \o <<"sp", "1">>
    /\ dispatched = <<[name |-> quit_name, args |-> << <<"1">> >>]>>
    /\ Breaks

\* ------------------------------------------------------------------ C31

\* C31: the engine changes the state the handlers capture only by invoking
\* a handler. In a step at most one handler is invoked, once, and it is the
\* one of the command the line resolved to, with the tokens that follow; a
\* step changes the captured state only when its line validly uses a
\* registered command (it is not blank, tokenizes, resolves to a registered
\* name and passes the validation of its arguments), and then by the one call
\* of that command; so the captured state is what the valid commands of the
\* lines read so far, applied in order, make it.
C31_OnlyHandlersChangeCaptured ==
    /\ [](/\ captured.state = captured.applied
          /\ Len(invoked) <= 1
          /\ (StepDone /\ invoked # <<>>) =>
                dispatched = <<[name |-> invoked[1].name, args |-> invoked[1].args]>>)
    /\ [][/\ captured.state' # captured.state =>
               (pc = "handling" /\ ValidLine(repl, read)
                /\ captured.state' = Append(captured.state,
                                            UseOf(repl, split_args(read.line).words)))
          /\ (pc = "handling" /\ ValidLine(repl, read)) =>
               Len(captured.state') = Len(captured.state) + 1]_vars

\* After `add 1 2`, which the closure of `add` recorded, the line `add 1 x`
\* failed the validation and left the state as it was.
C31_Witness ==
    /\ LineHandled
    /\ read.line = add_name \o <<"sp", "1", "sp", "x">>
    /\ invoked # <<>> /\ ~invoked[1].ran
    /\ captured.state = <<[name |-> add_name, args |-> << <<"1">>, <<"2">> >>]>>

\* ------------------------------------------------------------------ C32

\* readline has returned what makes the step break the loop or end run: an
\* interrupt, the end of the input, or a line that resolves to `quit`.
BreakDelivered ==
    /\ pc = "handling"
    /\ \/ read.kind \in {"Interrupted", "Eof"}
       \/ /\ read.kind = "Line" /\ ~IsBlank(read.line)
          /\ split_args(read.line).ok /\ split_args(read.line).words # <<>>
          /\ StartingWith(repl, split_args(read.line).words[1]) = {quit_name}
          /\ repl.predict_commands \/ split_args(read.line).words[1] = quit_name

\* run has returned.
RunReturned == pc = "returned"

\* C32: run returns Ok(()) exactly when a step yields Break, and a step
\* yields Break only for the reserved `quit`, a handler that returned Quit,
\* an interrupt or the end of the input. With handlers that return, once the
\* line source has delivered an interrupt, the end of the input or `quit`,
\* run returns, and so it does when a handler returns Quit; and as long as
\* the steps yield Continue run has not returned.
C32_RunReturnsOnBreak ==
    /\ [](/\ run_result = Ok("Done") <=> (RunReturned /\ status.ret = "Break")
          /\ (StepDone /\ status.ret = "Break") =>
                \/ read.kind \in {"Interrupted", "Eof"}
                \/ dispatched # <<>> /\ dispatched[1].name = quit_name
                \/ invoked # <<>> /\ invoked[1].ran /\ invoked[1].result = Ok("Quit")
          /\ (StepDone /\ invoked # <<>> /\ invoked[1].ran /\ invoked[1].result = Ok("Quit"))
                => (RunReturned /\ run_result = Ok("Done"))
          /\ (StepDone /\ status.ret = "Continue")
                => (~RunReturned /\ pc = "awaiting" /\ run_result = Ok("-")))
    /\ BreakDelivered ~> RunReturned

\* The end of the input came after a line that continued the loop, and run
\* returned Ok(()).
C32_Witness ==
    /\ RunReturned
    /\ read.kind = "Eof"
    /\ status.ret = "Break"
    /\ run_result = Ok("Done")

\* ------------------------------------------------------------------ C33

\* C33 as stated: an error of the line source that is neither an interrupt
\* nor the end of the input is printed and the step yields Continue: run has
\* not returned and waits for the next line.
C33_ReadErrorContinues ==
    StepRead("Error") =>
        /\ out = <<LineError(ReadlineError)>>
        /\ Continues
        /\ ~RunReturned

\* C33 amended: the loop writes the error of the line source; when the
\* write succeeds the step yields Continue, run has not returned and waits
\* for the next line, so that a line source failing on every read keeps the
\* loop going as long as the writes succeed; when the write fails nothing is
\* printed and the step and run return the I/O error.  No handler is invoked
\* and nothing is added to the history.
C33_ReadErrorContinuesUnlessWriteFails ==
    StepRead("Error") =>
        /\ NoDispatch /\ history = <<>>
        /\ writes.attempted = 1
        /\ WritesThenYields(<<LineError(ReadlineError)>>, "Continue")
        /\ writes.failed = {} => (Continues /\ ~RunReturned /\ run_result = Ok("-"))

\* The line source failed, the error was printed and run waits for a line.
C33_Witness ==
    /\ StepRead("Error")
    /\ out = <<LineError(ReadlineError)>>
    /\ pc = "awaiting"
    /\ DOMAIN repl.commands # {}

\* ------------------------------------------------------------------ C34

\* Every character of s is whitespace.
AllWhitespace(s) == \A k \in 1..Len(s) : s[k] \in {"sp", "nl", "nbsp"}

\* t is the line l without the whitespace at its two ends.
IsTrimmed(t, l) ==
    /\ t # <<>>
    /\ t[1] \notin {"sp", "nl", "nbsp"}
    /\ t[Len(t)] \notin {"sp", "nl", "nbsp"}
    /\ \E i \in 0..Len(l) : \E j \in i..Len(l) :
          /\ SubSeq(l, i + 1, j) = t
          /\ AllWhitespace(SubSeq(l, 1, i))
          /\ AllWhitespace(SubSeq(l, j + 1, Len(l)))

\* C34: a step whose line is not blank adds the line, trimmed, to the
\* history, once, whatever handling the line came to (a tokenization error,
\* no command or several, an error of the arguments or of the handler, quit,
\* even a step that does not end properly); a step for a blank line, an
\* interrupt, the end of the input or an error of the line source adds
\* nothing.
C34_NonBlankLinesInHistory ==
    StepDone =>
        IF read.kind = "Line" /\ ~AllWhitespace(read.line)
        THEN Len(history) = 1 /\ IsTrimmed(history[1], read.line)
        ELSE history = <<>>

\* The line ` hi ` was added to the history as `hi`, and then its handler
\* returned an error.
C34_Witness ==
    /\ StepDone
    /\ read.line = <<"sp", "h", "i", "sp">>
    /\ history = <<hi_name>>
    /\ status.ret = "Err"

\* ------------------------------------------------------------------ C35

\* The error the rules give for the name n of an entry that breaks one:
\* InvalidName before ReservedName before DuplicateCommands.
RuleBroken(n) ==
    IF InvalidName(n) THEN "InvalidName"
    ELSE IF n \in {help_name, quit_name} THEN "ReservedName"
    ELSE "DuplicateCommands"

Completed == edit.pc = "completed"

\* The line under edition was submitted and handled.
Submitted == edit.pc = "submitted"

\* What submitting the line l to Repl r dispatches, from the registry
\* alone: the one name that starts with the first token, with the tokens
\* that follow, when there is exactly one such name (and, without prefix
\* execution, it is the token).
Resolution(r, l) ==
    IF /\ ~AllWhitespace(l)
       /\ split_args(l).ok
       /\ split_args(l).words # <<>>
       /\ Cardinality(StartingWith(r, split_args(l).words[1])) = 1
       /\ r.predict_commands \/ split_args(l).words[1] \in StartingWith(r, split_args(l).words[1])
    THEN <<UseOf(r, split_args(l).words)>>
    ELSE <<>>

\* C36: the two flags gate the helper completely. With hints disabled the
\* hinter returns no hint, for every line and every position of the cursor;
\* with completion disabled the completer returns no candidate, for every
\* line; and whatever the flags are, a submitted line is resolved from the
\* registry alone.
C36_FlagsGateHelper ==
    /\ (Hinted /\ ~edit.with_hints) => edit.hint = NoHint
    /\ (Completed /\ ~edit.with_completion) => edit.completion = NoCompletion
    /\ Submitted => edit.dispatched = Resolution(repl, edit.line)

\* With hints and completion disabled, `a` was given no hint although `add`
\* is the single name that starts with it.
C36_Witness ==
    /\ Hinted
    /\ ~edit.with_hints /\ ~edit.with_completion
    /\ edit.line = <<"a">> /\ edit.pos = 1
    /\ add_name \in DOMAIN repl.commands
    /\ edit.hint = NoHint

\* With completion disabled the completer gave no candidate for `a`.
C36_CompletionGated ==
    /\ Completed /\ ~edit.with_completion /\ edit.with_hints
    /\ edit.line = <<"sp", "a">>
    /\ add_name \in DOMAIN repl.commands
    /\ edit.completion = NoCompletion

\* With both flags disabled the submitted `a` is resolved to `add`.
C36_ResolvedAsEver ==
    /\ Submitted /\ ~edit.with_completion /\ ~edit.with_hints
    /\ edit.line = <<"a">>
    /\ edit.dispatched = <<[name |-> add_name, args |-> <<>>]>>

\* ------------------------------------------------------------------ C37

\* The line under edition is one plain token, with the cursor at its end:
\* it holds no whitespace, quote, backslash or `#`, and it is not empty.
PlainTokenAtEnd ==
    /\ edit.line # <<>>
    /\ \A k \in 1..Len(edit.line) :
          edit.line[k] \notin {"sp", "nl", "nbsp", "sq", "dq", "bs", "hash"}
    /\ edit.pos = str_len(edit.line)

\* C37: hinting agrees with resolution. For a line that is one plain token
\* with the cursor at its end, the enabled hinter shows a hint exactly when
\* submitting the line, with prefix execution enabled, dispatches a command,
\* whatever the order of the candidates; and the line followed by the hint is
\* the name of the command that is dispatched.
C37_HintAgreesWithResolution ==
    (Hinted /\ edit.with_hints /\ PlainTokenAtEnd /\ repl.predict_commands) =>
        \A c \in Orderings(Lookup(repl, [kind |-> "Line", line |-> edit.line])) :
            /\ edit.hint.tag \in {"Some", "None"}
            /\ edit.hint.tag = "Some" <=>
                  handle_line(repl, edit.line, c, Ok("Done"), {}).dispatched # <<>>
            /\ edit.hint.tag = "Some" =>
                  handle_line(repl, edit.line, c, Ok("Done"), {}).dispatched[1].name
                     = edit.line \o edit.hint.text

\* In a Repl with the commands `éx` and `hi`, the line `é` was given the
\* hint `x`.
C37_Witness ==
    /\ Hinted /\ edit.with_hints /\ PlainTokenAtEnd
    /\ edit.line = <<"e_acute">>
    /\ edit.hint = SomeHint(<<"x">>)
    /\ DOMAIN repl.commands = {e_acute_x_name, hi_name}

\* ------------------------------------------------------------------ C38

\* C38: the editor of the built Repl uses the configuration the builder
\* held when build was called: the one passed to ReplBuilder::editor_config,
\* or the default of the builder when none was passed.
C38_EditorConfigUsed == pc = "built" => edit.config = edit.editor_config

\* The editor of the built Repl uses the configuration build makes, which
\* is equal to the default of the builder, whatever was passed.
C38_EditorConfigIsDefault == pc = "built" => edit.config = default_editor_config

====
